---- MODULE Spec2Model ----
(***************************************************************************)
(* Maze visualiser: the grid model, the four generators and four solvers   *)
(* as resumable iterators, and the playback driver (MazeApp) that steps    *)
(* them from timer callbacks under epoch-based cancellation.               *)
(*                                                                         *)
(* Python values: None for a node or a path is the empty tuple <<>>, None  *)
(* for a timer id is 0, None for the maze is the maze with id 0, None for  *)
(* the run kind is the string "none".  A Python generator object is a      *)
(* record holding its local variables; one call of next() on it is an      *)
(* operator from that record to the outcome (an item, StopIteration, or an *)
(* exception) and the record after the call.                               *)
(***************************************************************************)
EXTENDS Integers, Sequences, FiniteSets, TLC

VARIABLES
    sol,        \* a solver iterator under test: grid, iterator, yielded items
    gen,        \* a generator iterator under test: dimensions, iterator, grid built
    maze,       \* MazeApp.maze: [id, w, h, grid]; id 0 is None
    start,      \* MazeApp.start
    goal,       \* MazeApp.goal
    after_id,   \* MazeApp._after_id, 0 is None
    run_seq,    \* MazeApp._run_seq, the epoch
    kind,       \* MazeApp._kind: "none", "gen", "solve"
    batch_size, \* MazeApp._batch_size
    batch_cnt,  \* MazeApp._batch_cnt
    timers,     \* the host's pending after() callbacks: the job closures
    canvas,     \* GridCanvas: what the renderer shows
    hist,       \* history: items the last started run's iterator produced, and
                \* those the driver applied
    ev,         \* history: the operation that ran last and how it ended
    reg         \* maze/generator.py and maze/solver.py: the two _Registry
                \* dicts, with the outcome of the last registry call

driver == <<maze, start, goal, after_id, run_seq, kind, batch_size, batch_cnt,
            timers, canvas, hist, ev>>
vars == <<sol, gen, maze, start, goal, after_id, run_seq, kind, batch_size,
          batch_cnt, timers, canvas, hist, ev, reg>>

NoNode == <<>>

-----------------------------------------------------------------------------
(* Bounds of the model *)

\* solver harness: grids of SolveW columns by SolveH rows
SolveW == 3
SolveH == 3

\* generator harness: requested sizes 1 .. GenMaxW by 1 .. GenMaxH
GenMaxW == 5
GenMaxH == 3

\* driver: rows and cols requested are 0 or MaxDim, and at most MaxRuns
\* requests get past _cancel (the epoch counter itself is unbounded)
MaxDim == 3
MaxRuns == 3

\* driver: after_cancel may fail only while fewer than MaxStale callbacks it
\* failed to cancel before are still pending
MaxStale == 1

-----------------------------------------------------------------------------
(* utils/grid_helpers.py *)

FOUR_DIRS == << <<1, 0>>, <<-1, 0>>, <<0, 1>>, <<0, -1>> >>

Cells(w, h) == (0 .. w - 1) \X (0 .. h - 1)

\* neighbours(x, y, width, height): the in-range 4-neighbours, in _FOUR_DIRS order
neighbours(x, y, width, height) ==
    LET all == [i \in 1 .. 4 |-> <<x + FOUR_DIRS[i][1], y + FOUR_DIRS[i][2]>>]
        inside(c) == 0 <= c[1] /\ c[1] < width /\ 0 <= c[2] /\ c[2] < height
    IN  SelectSeq(all, inside)

\* Python's ordering of tuples (x, y)
NodeLess(a, b) == a[1] < b[1] \/ (a[1] = b[1] /\ a[2] < b[2])

\* Python's ordering of lists of nodes: the first difference decides, a proper
\* prefix is smaller
RECURSIVE PathLess(_, _)
PathLess(p, q) ==
    IF q = <<>> THEN FALSE
    ELSE IF p = <<>> THEN TRUE
    ELSE IF Head(p) # Head(q) THEN NodeLess(Head(p), Head(q))
    ELSE PathLess(Tail(p), Tail(q))

Abs(n) == IF n < 0 THEN -n ELSE n

-----------------------------------------------------------------------------
(* Solvers: each is a generator function of (maze, start, goal).  The      *)
(* iterator record holds the locals of all four; cur is the node of the    *)
(* snapshot yielded last (the code after the yield runs at the next call). *)

SolverNames == {"A*", "BFS", "DFS", "Dijkstra"}

\* _reconstruct(parent, node): the path root .. node; a missing key raises
RECURSIVE reconstruct(_, _)
reconstruct(parent, node) ==
    IF node = NoNode THEN <<>>
    ELSE Append(reconstruct(parent, parent[node]), node)

RECURSIVE reconstruct_raises(_, _, _)
reconstruct_raises(parent, node, fuel) ==
    IF node = NoNode THEN FALSE
    ELSE IF node \notin DOMAIN parent \/ fuel = 0 THEN TRUE
    ELSE reconstruct_raises(parent, parent[node], fuel - 1)

SolverCall(alg, s, g) ==
    [ alg     |-> alg,
      start   |-> s,
      goal    |-> g,
      cur     |-> NoNode,
      cost    |-> 0,
      cpath   |-> <<>>,
      queue   |-> IF alg \in {"BFS", "DFS"} THEN <<s>> ELSE <<>>,
      parent  |-> IF alg = "A*" THEN <<>> ELSE (s :> NoNode),
      visited |-> IF alg \in {"BFS", "DFS"} THEN {s} ELSE {},
      dist    |-> IF alg = "Dijkstra" THEN (s :> 0) ELSE <<>>,
      pq      |-> IF alg = "Dijkstra" THEN {<<0, s>>}
                  ELSE IF alg = "A*"
                  THEN {<<Abs(s[1] - g[1]) + Abs(s[2] - g[2]), 0,
                          s, <<s>>>>}
                  ELSE {},
      fin     |-> FALSE ]

Stop(st) == [res |-> "stop", item |-> <<>>, st |-> [st EXCEPT !.fin = TRUE]]
Raise(st) == [res |-> "raise", item |-> <<>>, st |-> [st EXCEPT !.fin = TRUE]]
Yield(item, st) == [res |-> "item", item |-> item, st |-> st]

\* the for-loop without the test for walls
RECURSIVE SearchExpandThroughWalls(_, _, _, _)
SearchExpandThroughWalls(st, grid, ns, i) ==
    IF i > Len(ns) THEN st
    ELSE IF ns[i] \in st.visited
         THEN SearchExpandThroughWalls(st, grid, ns, i + 1)
         ELSE SearchExpandThroughWalls(
                  [st EXCEPT !.visited = @ \cup {ns[i]},
                             !.parent = (ns[i] :> st.cur) @@ @,
                             !.queue = Append(@, ns[i])],
                  grid, ns, i + 1)

\* BFS / DFS: the for-loop over neighbours after the yield
RECURSIVE SearchExpand(_, _, _, _)
SearchExpand(st, grid, ns, i) ==
    IF i > Len(ns) THEN st
    ELSE IF grid[ns[i]] = 0 \/ ns[i] \in st.visited
         THEN SearchExpand(st, grid, ns, i + 1)
         ELSE SearchExpand([st EXCEPT !.visited = @ \cup {ns[i]},
                                      !.parent = (ns[i] :> st.cur) @@ @,
                                      !.queue = Append(@, ns[i])],
                           grid, ns, i + 1)

\* the code after the yield without the test for the goal
SearchResumeNoStop(st, w, h, grid) ==
    IF st.cur = NoNode THEN st
    ELSE SearchExpand(st, grid, neighbours(st.cur[1], st.cur[2], w, h), 1)

\* the code between a yield and the next evaluation of the loop condition
SearchResume(st, w, h, grid) ==
    IF st.cur = NoNode THEN st
    ELSE IF st.cur = st.goal THEN [st EXCEPT !.fin = TRUE]
    ELSE SearchExpand(st, grid, neighbours(st.cur[1], st.cur[2], w, h), 1)

\* BFS taking the newest queue entry (pop) instead of the oldest (popleft)
BFSNextPopRight(st, w, h, grid) ==
    LET s1 == SearchResume(st, w, h, grid)
    IN  IF s1.fin \/ s1.queue = <<>> THEN Stop(s1)
        ELSE LET current == s1.queue[Len(s1.queue)]
                 s2 == [s1 EXCEPT !.queue = SubSeq(@, 1, Len(@) - 1),
                                  !.cur = current]
             IN  IF reconstruct_raises(s2.parent, current, w * h) THEN Raise(s2)
                 ELSE Yield(reconstruct(s2.parent, current), s2)

BFSNext(st, w, h, grid) ==
    LET s1 == SearchResume(st, w, h, grid)
    IN  IF s1.fin \/ s1.queue = <<>> THEN Stop(s1)
        ELSE LET current == Head(s1.queue)
                 s2 == [s1 EXCEPT !.queue = Tail(@), !.cur = current]
             IN  IF reconstruct_raises(s2.parent, current, w * h) THEN Raise(s2)
                 ELSE Yield(reconstruct(s2.parent, current), s2)

DFSNext(st, w, h, grid) ==
    LET s1 == SearchResume(st, w, h, grid)
    IN  IF s1.fin \/ s1.queue = <<>> THEN Stop(s1)
        ELSE LET current == s1.queue[Len(s1.queue)]
                 s2 == [s1 EXCEPT !.queue = SubSeq(@, 1, Len(@) - 1),
                                  !.cur = current]
             IN  IF reconstruct_raises(s2.parent, current, w * h) THEN Raise(s2)
                 ELSE Yield(reconstruct(s2.parent, current), s2)

\* heapq.heappop on tuples (cost, node): the least tuple
DijkstraLess(a, b) == a[1] < b[1] \/ (a[1] = b[1] /\ NodeLess(a[2], b[2]))
DijkstraMin(pq) == CHOOSE e \in pq : \A o \in pq : o = e \/ DijkstraLess(e, o)

RECURSIVE DijkstraRelax(_, _, _, _)
DijkstraRelax(st, grid, ns, i) ==
    IF i > Len(ns) THEN st
    ELSE IF grid[ns[i]] = 0 THEN DijkstraRelax(st, grid, ns, i + 1)
    ELSE LET new_cost == st.cost + 1
         IN  IF ns[i] \notin DOMAIN st.dist \/ new_cost < st.dist[ns[i]]
             THEN DijkstraRelax([st EXCEPT !.dist = (ns[i] :> new_cost) @@ @,
                                           !.parent = (ns[i] :> st.cur) @@ @,
                                           !.pq = @ \cup {<<new_cost, ns[i]>>}],
                                grid, ns, i + 1)
             ELSE DijkstraRelax(st, grid, ns, i + 1)

DijkstraResume(st, w, h, grid) ==
    IF st.cur = NoNode THEN st
    ELSE IF st.cur = st.goal THEN [st EXCEPT !.fin = TRUE]
    ELSE DijkstraRelax(st, grid, neighbours(st.cur[1], st.cur[2], w, h), 1)

RECURSIVE DijkstraPop(_, _, _)
DijkstraPop(s1, w, h) ==
    IF s1.pq = {} THEN Stop(s1)
    ELSE LET e == DijkstraMin(s1.pq)
             s2 == [s1 EXCEPT !.pq = @ \ {e}]
         IN  IF e[2] \in s2.visited THEN DijkstraPop(s2, w, h)
             ELSE LET s3 == [s2 EXCEPT !.visited = @ \cup {e[2]},
                                       !.cur = e[2], !.cost = e[1]]
                  IN  IF reconstruct_raises(s3.parent, e[2], w * h) THEN Raise(s3)
                      ELSE Yield(reconstruct(s3.parent, e[2]), s3)

DijkstraNext(st, w, h, grid) ==
    LET s1 == DijkstraResume(st, w, h, grid)
    IN  IF s1.fin THEN Stop(s1) ELSE DijkstraPop(s1, w, h)

\* A*: heap entries (f, g, node, path)
heuristic(g, x, y) == Abs(x - g[1]) + Abs(y - g[2])

AStarLess(a, b) ==
    \/ a[1] < b[1]
    \/ a[1] = b[1] /\ a[2] < b[2]
    \/ a[1] = b[1] /\ a[2] = b[2] /\ NodeLess(a[3], b[3])
    \/ a[1] = b[1] /\ a[2] = b[2] /\ a[3] = b[3] /\ PathLess(a[4], b[4])
AStarMin(pq) == CHOOSE e \in pq : \A o \in pq : o = e \/ AStarLess(e, o)

RECURSIVE AStarPush(_, _, _, _)
AStarPush(st, grid, ns, i) ==
    IF i > Len(ns) THEN st
    ELSE IF grid[ns[i]] = 0 \/ ns[i] \in st.visited
         THEN AStarPush(st, grid, ns, i + 1)
         ELSE LET new_cost == st.cost + 1
              IN  AStarPush([st EXCEPT !.pq = @ \cup
                                 {<<new_cost + heuristic(st.goal, ns[i][1], ns[i][2]),
                                    new_cost, ns[i], Append(st.cpath, ns[i])>>}],
                            grid, ns, i + 1)

AStarResume(st, w, h, grid) ==
    IF st.cur = NoNode THEN st
    ELSE IF st.cur = st.goal THEN [st EXCEPT !.fin = TRUE]
    ELSE AStarPush(st, grid, neighbours(st.cur[1], st.cur[2], w, h), 1)

RECURSIVE AStarPop(_)
AStarPop(s1) ==
    IF s1.pq = {} THEN Stop(s1)
    ELSE LET e == AStarMin(s1.pq)
             s2 == [s1 EXCEPT !.pq = @ \ {e}]
         IN  IF e[3] \in s2.visited THEN AStarPop(s2)
             ELSE Yield(e[4], [s2 EXCEPT !.visited = @ \cup {e[3]},
                                         !.cur = e[3], !.cost = e[2],
                                         !.cpath = e[4]])

AStarNext(st, w, h, grid) ==
    LET s1 == AStarResume(st, w, h, grid)
    IN  IF s1.fin THEN Stop(s1) ELSE AStarPop(s1)

\* next(it) on a solver iterator over the maze (w, h, grid)
SolverNext(st, w, h, grid) ==
    IF st.fin THEN Stop(st)
    ELSE IF st.alg = "BFS" THEN BFSNext(st, w, h, grid)
    ELSE IF st.alg = "DFS" THEN DFSNext(st, w, h, grid)
    ELSE IF st.alg = "Dijkstra" THEN DijkstraNext(st, w, h, grid)
    ELSE AStarNext(st, w, h, grid)

-----------------------------------------------------------------------------
(* Generators: each is a generator function of (width, height) yielding    *)
(* edits (x, y, flag).  q holds the edits of straight-line code that are   *)
(* still to be yielded; random.choice / randrange / shuffle are choices    *)
(* over every value they can return, so next() has a set of outcomes.      *)

GeneratorNames ==
    {"DFS Backtracker", "Kruskal", "Prim's Algorithm", "Recursive Division"}

TWO_STEP_MOVES == << <<2, 0>>, <<-2, 0>>, <<0, 2>>, <<0, -2>> >>

GenState(alg, w, h) ==
    [ alg |-> alg, w |-> w, h |-> h, q |-> <<>>, stack |-> <<>>,
      visited |-> {}, frontiers |-> {}, edges |-> {}, parent |-> <<>>,
      tail |-> FALSE, fin |-> FALSE, splits |-> {} ]

YieldQ(st) == Yield(Head(st.q), [st EXCEPT !.q = Tail(@)])

\* _ensure_odd rounding even dimensions up instead of down
ensure_odd_up(w, h) ==
    << IF w % 2 = 0 THEN w + 1 ELSE w, IF h % 2 = 0 THEN h + 1 ELSE h >>

\* DFSBacktracker._ensure_odd / Prim._force_odd
ensure_odd(w, h) ==
    << IF w % 2 = 0 THEN w - 1 ELSE w, IF h % 2 = 0 THEN h - 1 ELSE h >>

force_odd(w, h) ==
    << IF w % 2 = 0 THEN w - 1 ELSE w, IF h % 2 = 0 THEN h - 1 ELSE h >>

unvisited_two_step_neighbours(x, y, w, h, visited) ==
    { c \in { <<x + TWO_STEP_MOVES[i][1], y + TWO_STEP_MOVES[i][2]>> : i \in 1 .. 4 } :
        0 <= c[1] /\ c[1] < w /\ 0 <= c[2] /\ c[2] < h /\ c \notin visited }

DFSBacktrackerCall(width, height) ==
    LET d == ensure_odd(width, height)
    IN  [GenState("DFS Backtracker", d[1], d[2]) EXCEPT
            !.visited = {<<0, 0>>}, !.stack = << <<0, 0>> >>,
            !.q = << <<0, 0, 1>> >>]

RECURSIVE DFSBacktrackerNext(_)
DFSBacktrackerNext(st) ==
    IF st.q # <<>> THEN {YieldQ(st)}
    ELSE IF st.stack = <<>> THEN {Stop(st)}
    ELSE LET top == st.stack[Len(st.stack)]
             candidates == unvisited_two_step_neighbours(top[1], top[2],
                                                         st.w, st.h, st.visited)
         IN  IF candidates = {}
             THEN DFSBacktrackerNext([st EXCEPT !.stack = SubSeq(@, 1, Len(@) - 1)])
             ELSE { Yield(<<(top[1] + c[1]) \div 2, (top[2] + c[2]) \div 2, 1>>,
                          [st EXCEPT !.visited = @ \cup {c},
                                     !.q = << <<c[1], c[2], 1>> >>,
                                     !.stack = Append(@, c)]) : c \in candidates }

\* Prim: frontier entries (wx, wy, nx, ny)
add_frontiers(st, x, y) ==
    { <<x + (TWO_STEP_MOVES[i][1] \div 2), y + (TWO_STEP_MOVES[i][2] \div 2),
        x + TWO_STEP_MOVES[i][1], y + TWO_STEP_MOVES[i][2]>> : i \in 1 .. 4 }
    \cap { f \in (-1 .. st.w) \X (-1 .. st.h) \X (0 .. st.w - 1) \X (0 .. st.h - 1) :
             <<f[3], f[4]>> \notin st.visited }

PrimCall(width, height) ==
    LET d == force_odd(width, height)
        s0 == [GenState("Prim's Algorithm", d[1], d[2]) EXCEPT
                  !.visited = {<<0, 0>>}, !.q = << <<0, 0, 1>> >>]
    IN  [s0 EXCEPT !.frontiers = add_frontiers(s0, 0, 0)]

RECURSIVE PrimNext(_)
PrimNext(st) ==
    IF st.q # <<>> THEN {YieldQ(st)}
    ELSE IF st.frontiers = {} THEN {Stop(st)}
    ELSE UNION {
        LET s1 == [st EXCEPT !.frontiers = @ \ {f}]
        IN  IF <<f[3], f[4]>> \in st.visited THEN PrimNext(s1)
            ELSE LET s2 == [s1 EXCEPT !.visited = @ \cup {<<f[3], f[4]>>},
                                      !.q = << <<f[3], f[4], 1>> >>]
                 IN  {Yield(<<f[1], f[2], 1>>,
                            [s2 EXCEPT !.frontiers = @ \cup add_frontiers(s2, f[3], f[4])])}
        : f \in st.frontiers }

\* Kruskal: _UnionFind.find with path halving returns <<root, parent'>>
RECURSIVE find(_, _)
find(parent, item) ==
    IF parent[item] = item THEN <<item, parent>>
    ELSE LET p2 == (item :> parent[parent[item]]) @@ parent
         IN  find(p2, p2[item])

\* union without the test for equal roots
union_unchecked(parent, a, b) ==
    LET fa == find(parent, a)
        fb == find(fa[2], b)
    IN  <<TRUE, (fb[1] :> fa[1]) @@ fb[2]>>

\* _UnionFind.union returns <<merged, parent'>>
union(parent, a, b) ==
    LET fa == find(parent, a)
        fb == find(fa[2], b)
    IN  IF fa[1] = fb[1] THEN <<FALSE, fb[2]>>
        ELSE <<TRUE, (fb[1] :> fa[1]) @@ fb[2]>>

\* range(0, n, 2)
EvenRange(n) == { v \in 0 .. n - 1 : v % 2 = 0 }

KruskalCells(w, h) == EvenRange(w) \X EvenRange(h)

\* the edge list without the tests x + 2 < w and y + 2 < h
KruskalEdgesUnchecked(w, h) ==
    { << c, <<c[1] + 2, c[2]>>, <<c[1] + 1, c[2]>> >> : c \in KruskalCells(w, h) }
    \cup
    { << c, <<c[1], c[2] + 2>>, <<c[1], c[2] + 1>> >> : c \in KruskalCells(w, h) }

\* the edge list (a, b, wall) before random.shuffle
KruskalEdges(w, h) ==
    { << c, <<c[1] + 2, c[2]>>, <<c[1] + 1, c[2]>> >> :
         c \in { d \in KruskalCells(w, h) : d[1] + 2 < w } }
    \cup
    { << c, <<c[1], c[2] + 2>>, <<c[1], c[2] + 1>> >> :
         c \in { d \in KruskalCells(w, h) : d[2] + 2 < h } }

\* random.shuffle(edges) followed by iteration in list order takes, at each
\* iteration, any edge not taken before: edges is the set still to come
KruskalCall(width, height) ==
    LET nx == (width + 1) \div 2
        ny == (height + 1) \div 2
    IN  [GenState("Kruskal", width, height) EXCEPT
            !.q = [k \in 1 .. nx * ny |-> <<2 * ((k - 1) % nx), 2 * ((k - 1) \div nx), 1>>],
            !.parent = [c \in KruskalCells(width, height) |-> c],
            !.edges = KruskalEdges(width, height)]

RECURSIVE KruskalNext(_)
KruskalNext(st) ==
    IF st.q # <<>> THEN {YieldQ(st)}
    ELSE IF st.edges = {} THEN {Stop(st)}
    ELSE UNION {
        LET u == union(st.parent, e[1], e[2])
            s1 == [st EXCEPT !.edges = @ \ {e}, !.parent = u[2]]
        IN  IF u[1]
            THEN {Yield(<<e[3][1], e[3][2], 1>>,
                        [s1 EXCEPT !.q = << <<e[2][1], e[2][2], 1>> >>])}
            ELSE KruskalNext(s1)
        : e \in st.edges }

\* Recursive division: stack holds the _divide calls still to be made, in
\* call order; q the wall cells of the split being yielded; splits is the
\* history of the splits made: orientation, wall line, gap, rectangle
HORIZONTAL == TRUE
VERTICAL == FALSE

\* _pick_orientation: every value it can return
pick_orientation(w, h) ==
    IF h < w THEN {VERTICAL}
    ELSE IF w < h THEN {HORIZONTAL}
    ELSE {HORIZONTAL, VERTICAL}

\* the sequence of the values of lo .. hi in order, without skip
RECURSIVE LineBut(_, _, _)
LineBut(lo, hi, skip) ==
    IF lo > hi THEN <<>>
    ELSE IF lo = skip THEN LineBut(lo + 1, hi, skip)
    ELSE <<lo>> \o LineBut(lo + 1, hi, skip)

\* __call__ without step 2, the outer border
RecursiveDivisionCallNoBorder(width, height) ==
    [GenState("Recursive Division", width, height) EXCEPT
        !.q = [k \in 1 .. width * height |->
                  <<(k - 1) % width, (k - 1) \div width, 1>>],
        !.stack = << <<0, 0, width, height>> >>]

RecursiveDivisionCall(width, height) ==
    [GenState("Recursive Division", width, height) EXCEPT
        !.q = [k \in 1 .. width * height |->
                  <<(k - 1) % width, (k - 1) \div width, 1>>]
              \o [k \in 1 .. 2 * width |->
                  <<(k - 1) \div 2, IF k % 2 = 1 THEN 0 ELSE height - 1, 0>>]
              \o [k \in 1 .. 2 * height |->
                  <<IF k % 2 = 1 THEN 0 ELSE width - 1, (k - 1) \div 2, 0>>],
        !.stack = << <<0, 0, width, height>> >>]

\* random.choice of an empty list raises IndexError
RECURSIVE RecursiveDivisionNext(_)
split_horizontal(st, x, y, w, h) ==
    LET wall_ys == { yy \in y + 1 .. y + h - 2 : yy % 2 = 0 }
        gap_xs == { xx \in x .. x + w - 1 : xx % 2 = 1 }
    IN  IF wall_ys = {} \/ gap_xs = {} THEN {Raise(st)}
        ELSE UNION {
            RecursiveDivisionNext(
              [st EXCEPT
                 !.q = LET xs == LineBut(x, x + w - 1, c[2])
                       IN  [k \in 1 .. Len(xs) |-> <<xs[k], c[1], 0>>],
                 !.stack = << <<x, y, w, c[1] - y>>,
                              <<x, c[1] + 1, w, y + h - (c[1] + 1)>> >> \o @,
                 !.splits = @ \cup {<<HORIZONTAL, c[1], c[2], x, y, w, h>>}])
            : c \in wall_ys \X gap_xs }

split_vertical(st, x, y, w, h) ==
    LET wall_xs == { xx \in x + 1 .. x + w - 2 : xx % 2 = 0 }
        gap_ys == { yy \in y .. y + h - 1 : yy % 2 = 1 }
    IN  IF wall_xs = {} \/ gap_ys = {} THEN {Raise(st)}
        ELSE UNION {
            RecursiveDivisionNext(
              [st EXCEPT
                 !.q = LET ys == LineBut(y, y + h - 1, c[2])
                       IN  [k \in 1 .. Len(ys) |-> <<c[1], ys[k], 0>>],
                 !.stack = << <<x, y, c[1] - x, h>>,
                              <<c[1] + 1, y, x + w - (c[1] + 1), h>> >> \o @,
                 !.splits = @ \cup {<<VERTICAL, c[1], c[2], x, y, w, h>>}])
            : c \in wall_xs \X gap_ys }

divide(st, x, y, w, h) ==
    IF w < 3 \/ h < 3 THEN RecursiveDivisionNext(st)
    ELSE UNION { IF horizontal THEN split_horizontal(st, x, y, w, h)
                 ELSE split_vertical(st, x, y, w, h)
                 : horizontal \in pick_orientation(w, h) }

RecursiveDivisionNext(st) ==
    IF st.q # <<>> THEN {YieldQ(st)}
    ELSE IF st.stack # <<>>
    THEN LET f == Head(st.stack)
         IN  divide([st EXCEPT !.stack = Tail(@)], f[1], f[2], f[3], f[4])
    ELSE IF ~st.tail
    THEN RecursiveDivisionNext(
            [st EXCEPT !.tail = TRUE,
                       !.q = << <<0, IF st.h > 2 THEN 1 ELSE 0, 1>>,
                                <<st.w - 1,
                                  IF st.h > 2 THEN st.h - 2 ELSE st.h - 1, 1>> >>])
    ELSE {Stop(st)}

\* gen(width, height): calling the registered generator instance
GeneratorCall(name, width, height) ==
    IF name = "DFS Backtracker" THEN DFSBacktrackerCall(width, height)
    ELSE IF name = "Kruskal" THEN KruskalCall(width, height)
    ELSE IF name = "Prim's Algorithm" THEN PrimCall(width, height)
    ELSE RecursiveDivisionCall(width, height)

\* next(it) on a generator iterator: the set of its possible outcomes
GeneratorNext(st) ==
    IF st.fin THEN {Stop(st)}
    ELSE IF st.alg = "DFS Backtracker" THEN DFSBacktrackerNext(st)
    ELSE IF st.alg = "Kruskal" THEN KruskalNext(st)
    ELSE IF st.alg = "Prim's Algorithm" THEN PrimNext(st)
    ELSE RecursiveDivisionNext(st)

\* numpy's grid[y, x] = flag on an h-by-w array: an index in [-n, n) is
\* accepted (a negative one counts from the end), any other raises IndexError
IndexOk(w, h, x, y) == -w <= x /\ x < w /\ -h <= y /\ y < h
GridWrite(grid, w, h, x, y, flag) == (<<x % w, y % h>> :> flag) @@ grid

\* np.zeros((h, w))
Zeros(w, h) == [c \in Cells(w, h) |-> 0]

-----------------------------------------------------------------------------
(* maze/generator.py and maze/solver.py: the registries.  A dict is the    *)
(* sequence of its <<key, value>> items in insertion order; an instance is *)
(* the number of the cls() call that made it; a name tried in the registry *)
(* calls is the tuple of its characters' code points.                      *)

Registries == {"generators", "solvers"}

\* key in d
key_in(d, key) == \E i \in 1 .. Len(d) : d[i][1] = key

\* d[key], for a key in d
dict_get(d, key) == d[CHOOSE i \in 1 .. Len(d) : d[i][1] = key][2]

\* d[key] = value: a new key goes last, a present key keeps its place
dict_set(d, key, value) ==
    IF key_in(d, key)
    THEN [i \in 1 .. Len(d) |-> IF d[i][1] = key THEN <<key, value>> ELSE d[i]]
    ELSE Append(d, <<key, value>>)

\* iteration over d: its keys in insertion order
dict_keys(d) == [i \in 1 .. Len(d) |-> d[i][1]]

\* Python's ordering of str: the first differing character decides, a proper
\* prefix is smaller
RECURSIVE StrLess(_, _)
StrLess(a, b) ==
    IF b = <<>> THEN FALSE
    ELSE IF a = <<>> THEN TRUE
    ELSE IF Head(a) # Head(b) THEN Head(a) < Head(b)
    ELSE StrLess(Tail(a), Tail(b))

\* sorted(keys): each key in turn is put after the last one not greater
RECURSIVE sorted(_)
sorted(keys) ==
    IF keys = <<>> THEN <<>>
    ELSE LET rest == sorted(SubSeq(keys, 1, Len(keys) - 1))
             k == keys[Len(keys)]
             n == Cardinality({ i \in 1 .. Len(rest) : ~StrLess(k, rest[i]) })
         IN  SubSeq(rest, 1, n) \o <<k>> \o SubSeq(rest, n + 1, Len(rest))

\* register's test with one dict shared by both registries
duplicate_in_any(r, which, key) ==
    key_in(r.generators, key) \/ key_in(r.solvers, key)

\* register without its test
duplicate_never(r, which, key) == FALSE

\* register: key in _Registry
duplicate(r, which, key) == key_in(r[which], key)

\* the registries once the two algorithm packages are imported; the names
\* are kept as strings here
Imported ==
    LET g == << <<"DFS Backtracker", 1>>, <<"Kruskal", 2>>,
                <<"Prim's Algorithm", 3>>, <<"Recursive Division", 4>> >>
        s == << <<"A*", 5>>, <<"BFS", 6>>, <<"DFS", 7>>, <<"Dijkstra", 8>> >>
    IN  [ generators |-> g,
          solvers    |-> s,
          made       |-> 8,
          first      |-> { <<"generators", g[i][1], g[i][2]>> : i \in 1 .. 4 }
                         \cup { <<"solvers", s[i][1], s[i][2]>> : i \in 1 .. 4 },
          last       |-> [op |-> "import", which |-> "none", name |-> <<>>,
                          result |-> "ok", value |-> 0, names |-> <<>>] ]

\* get_generator / get_solver with dict.get in place of the subscript
lookup_default(r, which, name) ==
    IF key_in(r[which], name)
    THEN [result |-> "ok", value |-> dict_get(r[which], name)]
    ELSE [result |-> "ok", value |-> 0]

\* get_generator / get_solver: _Registry[name], KeyError re-raised
lookup(r, which, name) ==
    IF key_in(r[which], name)
    THEN [result |-> "ok", value |-> dict_get(r[which], name)]
    ELSE [result |-> "KeyError", value |-> 0]

\* list_generators / list_solvers with list(_Registry)
listing_unsorted(r, which) == dict_keys(r[which])

\* list_generators / list_solvers: sorted(_Registry)
listing(r, which) == sorted(dict_keys(r[which]))

\* names tried in the registry calls: 1 .. MaxNameLen characters out of
\* the code points 1 .. MaxChar; at most MaxRegs classes are decorated
MaxChar == 2
MaxNameLen == 2
MaxRegs == 3
RegNames == UNION { [1 .. n -> 1 .. MaxChar] : n \in 1 .. MaxNameLen }

-----------------------------------------------------------------------------
(* gui/grid_canvas.py: the renderer.  cells is the colour of each cell     *)
(* rectangle (1 passage, 0 wall), path is _current_path, visited the keys  *)
(* of _visited_objects, markers the start/goal dots (<<>> when deleted)    *)

NoMaze == [id |-> 0, w |-> 0, h |-> 0, grid |-> <<>>]

NewCanvas == [maze |-> 0, cells |-> <<>>, path |-> <<>>, visited |-> {},
              markers |-> <<>>]

SeqSet(p) == { p[i] : i \in 1 .. Len(p) }

reset_path(cv) == [cv EXCEPT !.path = <<>>, !.visited = {}]

draw_maze(cv, m) ==
    [ maze |-> m.id, cells |-> [c \in Cells(m.w, m.h) |-> IF m.grid[c] # 0 THEN 1 ELSE 0],
      path |-> <<>>, visited |-> {}, markers |-> <<>> ]

draw_cell(cv, x, y, colour) == [cv EXCEPT !.cells = (<<x, y>> :> colour) @@ @]

draw_path(cv, cells) ==
    [cv EXCEPT !.visited = @ \cup (SeqSet(cells) \ SeqSet(cv.path)),
               !.path = cells]

draw_markers(cv, s, g) == [cv EXCEPT !.markers = <<s, g>>]

-----------------------------------------------------------------------------
(* gui/app.py: MazeApp *)

MIN_BATCH == 1
MAX_BATCH_GEN == 50
MAX_BATCH_SOLVE == 3
DELAY_INSTANT == 0

Min(a, b) == IF a < b THEN a ELSE b
Max(a, b) == IF a > b THEN a ELSE b

\* the names a request may carry: the registered ones and one that is not
GenChoices == GeneratorNames \cup {"no such generator"}
SolChoices == SolverNames \cup {"no such solver"}
Speeds == {50, 100}
\* the sizes asked for: one Maze rejects, and MaxDim
Dims == {0, MaxDim}

\* int(100 * (1 - (speed_pct - 1) / 99) ** 1.5), for integer speed_pct in
\* 41 .. 99: the d with d^2 * 99^3 <= 100^2 * (100 - speed_pct)^3 < (d+1)^2 * 99^3
delay_of(speed_pct) ==
    LET n == 100 - speed_pct
    IN  CHOOSE d \in 0 .. 46 :
            /\ d * d * 970299 <= 10000 * n * n * n
            /\ 10000 * n * n * n < (d + 1) * (d + 1) * 970299

\* _calc_delay_batch: <<delay_ms, batch_size>>
calc_delay_batch(speed_pct, cell_count, solving) ==
    IF speed_pct >= 100 THEN <<DELAY_INSTANT, MAX_BATCH_GEN>>
    ELSE << Max(1, delay_of(speed_pct)),
            IF solving
            THEN Min(MAX_BATCH_SOLVE, Max(MIN_BATCH, cell_count \div 400))
            ELSE Min(MAX_BATCH_GEN, Max(MIN_BATCH, cell_count \div 200)) >>

\* _pick_endpoints.first_passage(search_from) on maze m
first_passage(m, search_from) ==
    LET x0 == search_from[1]
        y0 == search_from[2]
        at(k) == << IF x0 = 0 THEN k % m.w ELSE m.w - 1 - (k % m.w),
                    IF y0 = 0 THEN k \div m.w ELSE m.h - 1 - (k \div m.w) >>
        hits == { k \in 0 .. m.w * m.h - 1 : m.grid[at(k)] # 0 }
    IN  IF hits = {} THEN <<x0, y0>>
        ELSE at(CHOOSE k \in hits : \A j \in hits : k <= j)

pick_start(m) == first_passage(m, <<0, 0>>)
pick_goal(m) == first_passage(m, <<m.w - 1, m.h - 1>>)

\* _cancel leaving the epoch as it is
CancelSeqKeep(seq) == seq

\* the epoch after _cancel
CancelSeq(seq) == seq + 1

\* job without its staleness test
IsStaleNever(epoch, seq) == FALSE

\* job testing for a newer epoch only
IsStaleNewer(epoch, seq) == epoch > seq

\* job's staleness test
IsStale(epoch, seq) == epoch # seq

\* solve without its Busy test
BusyNever(k) == FALSE

\* solve's Busy test on _kind
Busy(k) == k = "gen"

\* _cancel leaving _kind as it is
CancelKeepKind(cancelled) ==
    [ timers   |-> IF after_id # 0 /\ cancelled
                   THEN { t \in timers : t.id # after_id } ELSE timers,
      after_id |-> 0,
      run_seq  |-> CancelSeq(run_seq),
      kind     |-> kind,
      batch_cnt |-> 0 ]

\* _cancel(): after_cancel either removes the pending callback or fails with
\* TclError, which is swallowed (cancelled says which); an id that is no longer
\* pending is ignored
Cancel(cancelled) ==
    [ timers   |-> IF after_id # 0 /\ cancelled
                   THEN { t \in timers : t.id # after_id } ELSE timers,
      after_id |-> 0,
      run_seq  |-> CancelSeq(run_seq),
      kind     |-> "none",
      batch_cnt |-> 0 ]

\* the outcomes of after_cancel in _cancel: TRUE it cancels, FALSE it fails
CancelOutcomes ==
    IF /\ \E t \in timers : t.id = after_id
       /\ Cardinality({ t \in timers : t.id # after_id }) < MaxStale
    THEN BOOLEAN ELSE {TRUE}

\* the id after() returns: one that no pending callback and no holder has
NewId(ts, held) ==
    CHOOSE i \in 1 .. Cardinality(ts) + 2 :
        /\ i # held
        /\ \A t \in ts : t.id # i

Ev(op, result) == [op |-> op, result |-> result, epoch |-> 0, pulled |-> 0,
                   wrote |-> 0]

DriverInit ==
    /\ maze = NoMaze
    /\ start = <<0, 0>>
    /\ goal = <<0, 0>>
    /\ after_id = 0
    /\ run_seq = 0
    /\ kind = "none"
    /\ batch_size = MIN_BATCH
    /\ batch_cnt = 0
    /\ timers = {}
    /\ canvas = NewCanvas
    /\ hist = [epoch |-> 0, kind |-> "none", alg |-> "none", produced |-> <<>>,
               applied |-> <<>>]
    /\ ev = Ev("init", "ok")

DriverIdle == DriverInit

\* _run_iterator(it, delay_ms, kind) after _cancel gave c: the first callback
RunIterator(c, it, delay_ms, k) ==
    LET id == NewId(c.timers, c.after_id)
    IN  /\ kind' = k
        /\ after_id' = id
        /\ timers' = c.timers \cup
              {[id |-> id, epoch |-> c.run_seq, kind |-> k, delay |-> delay_ms,
                ms |-> 1, it |-> it]}
        /\ hist' = [epoch |-> c.run_seq, kind |-> k, alg |-> it.alg,
                    produced |-> <<>>, applied |-> <<>>]

\* Maze(w, h) without the test of __post_init__
MazeUnchecked(id, w, h) ==
    [res |-> "ok", maze |-> [id |-> id, w |-> w, h |-> h, grid |-> Zeros(w, h)]]

\* Maze(w, h): the dataclass and its __post_init__; id tells the objects apart
Maze(id, w, h) ==
    IF w <= 0 \/ h <= 0
    THEN [res |-> "ValueError", maze |-> NoMaze]
    ELSE [res |-> "ok",
          maze |-> [id |-> id, w |-> w, h |-> h, grid |-> Zeros(w, h)]]

\* generate(rows, cols, gen_name, speed_pct)
Generate(rows, cols, gen_name, speed_pct) ==
    /\ run_seq < MaxRuns
    /\ \E cancelled \in CancelOutcomes :
        LET c == Cancel(cancelled)
        IN  /\ run_seq' = c.run_seq
            /\ batch_cnt' = c.batch_cnt
            /\ IF Maze(c.run_seq, cols, rows).res = "ValueError"
               THEN \* Maze.__post_init__ raises
                    /\ kind' = c.kind
                    /\ after_id' = c.after_id
                    /\ timers' = c.timers
                    /\ ev' = Ev("generate", "ValueError")
                    /\ UNCHANGED <<maze, start, goal, batch_size, canvas, hist>>
               ELSE LET m == Maze(c.run_seq, cols, rows).maze
                        db == calc_delay_batch(speed_pct, rows * cols, FALSE)
                    IN  /\ maze' = m
                        /\ canvas' = draw_maze(reset_path(canvas), m)
                        /\ batch_size' = db[2]
                        /\ UNCHANGED <<start, goal>>
                        /\ IF gen_name \notin GeneratorNames
                           THEN \* get_generator raises KeyError
                                /\ kind' = c.kind
                                /\ after_id' = c.after_id
                                /\ timers' = c.timers
                                /\ ev' = Ev("generate", "KeyError")
                                /\ UNCHANGED hist
                           ELSE /\ RunIterator(c, GeneratorCall(gen_name, m.w, m.h),
                                               db[1], "gen")
                                /\ ev' = Ev("generate", "started")
    /\ UNCHANGED <<sol, gen, reg>>

\* solve(sol_name, speed_pct)
Solve(sol_name, speed_pct) ==
    /\ IF maze.id = 0
       THEN /\ ev' = Ev("solve", "no maze")
            /\ UNCHANGED <<maze, start, goal, after_id, run_seq, kind, batch_size,
                           batch_cnt, timers, canvas, hist>>
       ELSE IF Busy(kind)
       THEN /\ ev' = Ev("solve", "busy")
            /\ UNCHANGED <<maze, start, goal, after_id, run_seq, kind, batch_size,
                           batch_cnt, timers, canvas, hist>>
       ELSE /\ run_seq < MaxRuns
            /\ \E cancelled \in CancelOutcomes :
                LET c == Cancel(cancelled)
                IN  /\ run_seq' = c.run_seq
                    /\ batch_cnt' = c.batch_cnt
                    /\ UNCHANGED maze
                    /\ IF sol_name \notin SolverNames
                       THEN \* get_solver raises KeyError
                            /\ kind' = c.kind
                            /\ after_id' = c.after_id
                            /\ timers' = c.timers
                            /\ ev' = Ev("solve", "KeyError")
                            /\ UNCHANGED <<start, goal, batch_size, canvas, hist>>
                       ELSE LET s == pick_start(maze)
                                g == pick_goal(maze)
                                db == calc_delay_batch(speed_pct, maze.w * maze.h, TRUE)
                            IN  /\ start' = s
                                /\ goal' = g
                                /\ canvas' = reset_path(draw_markers(canvas, s, g))
                                /\ batch_size' = db[2]
                                /\ RunIterator(c, SolverCall(sol_name, s, g),
                                               db[1], "solve")
                                /\ ev' = Ev("solve", "started")
    /\ UNCHANGED <<sol, gen, reg>>

\* the grid written at [x, y] instead of [y, x]
ApplyEditTransposed(js, item) ==
    [js EXCEPT !.grid = GridWrite(@, js.w, js.h, item[2], item[1], item[3]),
               !.canvas = draw_cell(@, item[1], item[2], IF item[3] # 0 THEN 1 ELSE 0),
               !.applied = Append(@, item),
               !.wrote = @ + 1]

\* the body of job's while loop for one generator edit: the grid write and
\* the cell-changed render call
ApplyEdit(js, item) ==
    [js EXCEPT !.grid = GridWrite(@, js.w, js.h, item[1], item[2], item[3]),
               !.canvas = draw_cell(@, item[1], item[2], IF item[3] # 0 THEN 1 ELSE 0),
               !.applied = Append(@, item),
               !.wrote = @ + 1]

\* the solve branch marking the head of the path in the grid
ApplyPathMarking(js, path) ==
    [js EXCEPT !.canvas = draw_path(@, path), !.applied = Append(@, path),
               !.grid = GridWrite(@, js.w, js.h, path[Len(path)][1],
                                  path[Len(path)][2], 2)]

\* ... and for one solver snapshot: the path-changed render call
ApplyPath(js, path) ==
    [js EXCEPT !.canvas = draw_path(@, path), !.applied = Append(@, path)]

\* job's while loop from the given count of updates: every way it can end.
\* "batch": the batch is full; "stop": next() raised StopIteration; "raise":
\* another exception left the loop (and job)
RECURSIVE Batch(_, _, _)
Batch(js, k, updates) ==
    IF ~(updates < js.batch_size) THEN {[end |-> "batch", js |-> js]}
    ELSE UNION {
        LET js1 == [js EXCEPT !.it = o.st, !.pulled = @ + 1]
        IN  IF o.res = "stop" THEN {[end |-> "stop", js |-> js1]}
            ELSE IF o.res = "raise" THEN {[end |-> "raise", js |-> js1]}
            ELSE LET js2 == [js1 EXCEPT !.produced = Append(@, o.item)]
                 IN  IF k = "gen"
                     THEN IF IndexOk(js.w, js.h, o.item[1], o.item[2])
                          THEN Batch(ApplyEdit(js2, o.item), k, updates + 1)
                          ELSE {[end |-> "raise", js |-> js2]}
                     ELSE Batch(ApplyPath(js2, o.item), k, updates + 1)
        : o \in IF k = "gen" THEN GeneratorNext(js.it)
                ELSE {SolverNext(js.it, js.w, js.h, js.grid)} }

\* the host runs the pending callback t: job()
Job(t) ==
    /\ t \in timers
    /\ UNCHANGED <<sol, gen, reg, run_seq, batch_size, batch_cnt>>
    /\ IF IsStale(t.epoch, run_seq)
       THEN /\ timers' = timers \ {t}
            /\ ev' = [Ev("job", "stale") EXCEPT !.epoch = t.epoch]
            /\ UNCHANGED <<maze, start, goal, after_id, kind, canvas, hist>>
       ELSE \E b \in Batch([ it |-> t.it, w |-> maze.w, h |-> maze.h,
                             grid |-> maze.grid, canvas |-> canvas,
                             batch_size |-> batch_size,
                             produced |-> hist.produced, applied |-> hist.applied,
                             pulled |-> 0, wrote |-> 0 ],
                           t.kind, 0) :
            /\ maze' = [maze EXCEPT !.grid = b.js.grid]
            /\ hist' = [hist EXCEPT !.produced = b.js.produced,
                                    !.applied = b.js.applied]
            /\ ev' = [Ev("job", b.end) EXCEPT !.epoch = t.epoch,
                                             !.pulled = b.js.pulled,
                                             !.wrote = b.js.wrote]
            /\ IF b.end = "batch"
               THEN \* schedule next batch
                    LET id == NewId(timers \ {t}, after_id)
                    IN  /\ after_id' = id
                        /\ timers' = (timers \ {t}) \cup
                                       {[t EXCEPT !.id = id, !.it = b.js.it,
                                                  !.ms = Max(1, t.delay)]}
                        /\ canvas' = b.js.canvas
                        /\ UNCHANGED <<start, goal, kind>>
               ELSE IF b.end = "stop"
               THEN \* finished
                    /\ after_id' = 0
                    /\ timers' = timers \ {t}
                    /\ kind' = "none"
                    /\ IF t.kind = "gen"
                       THEN /\ start' = pick_start(maze')
                            /\ goal' = pick_goal(maze')
                            /\ canvas' = draw_markers(b.js.canvas, start', goal')
                       ELSE /\ canvas' = b.js.canvas
                            /\ UNCHANGED <<start, goal>>
               ELSE \* the exception leaves job; Tk reports it and goes on
                    /\ timers' = timers \ {t}
                    /\ canvas' = b.js.canvas
                    /\ UNCHANGED <<start, goal, after_id, kind>>

Next ==
    \/ \E rows \in Dims, cols \in Dims, gen_name \in GenChoices,
          speed_pct \in Speeds : Generate(rows, cols, gen_name, speed_pct)
    \/ \E sol_name \in SolChoices, speed_pct \in Speeds : Solve(sol_name, speed_pct)
    \/ \E t \in timers : Job(t)

Init == DriverInit /\ sol = 0 /\ gen = 0 /\ reg = Imported

Spec == Init /\ [][Next]_vars

\* the driver with at most MaxLiveRuns requests accepted, and an event loop
\* that runs every timer callback that is due
MaxLiveRuns == 2

LiveNext ==
    \/ \E rows \in Dims, cols \in Dims, gen_name \in GenChoices,
          speed_pct \in Speeds :
            /\ run_seq < MaxLiveRuns
            /\ Generate(rows, cols, gen_name, speed_pct)
    \/ \E sol_name \in SolChoices, speed_pct \in Speeds :
            /\ run_seq < MaxLiveRuns
            /\ Solve(sol_name, speed_pct)
    \/ \E t \in timers : Job(t)

\* the events a timer callback can leave behind: job() calls next(it) at
\* most batch_size times
JobEvents ==
    [op : {"job"}, result : {"stale", "batch", "stop", "raise"},
     epoch : 0 .. MaxRuns, pulled : 0 .. MAX_BATCH_GEN,
     wrote : 0 .. MAX_BATCH_GEN]

\* some pending callback runs: root.after(ms, job) hands job to the event
\* loop, which calls every callback that is due
JobDue == timers # {} /\ ev' \in JobEvents

\* the event loop keeps running, so a callback that stays pending is
\* eventually called
SpecLive == Init /\ [][LiveNext]_vars /\ WF_ev(JobDue)

-----------------------------------------------------------------------------
(* The generate requests on their own, over every size from -1 to          *)
(* MaxMazeDim in each direction, with the timer callbacks they schedule.   *)

MaxMazeDim == 2
MaxMazeRuns == 2
MazeDims == -1 .. MaxMazeDim

MazeNext ==
    \/ \E rows \in MazeDims, cols \in MazeDims, gen_name \in GenChoices,
          speed_pct \in Speeds :
            /\ run_seq < MaxMazeRuns
            /\ Generate(rows, cols, gen_name, speed_pct)
    \/ \E t \in timers : Job(t)

SpecMaze == Init /\ [][MazeNext]_vars

-----------------------------------------------------------------------------
(* Solver harness: one solver pulled item by item on an arbitrary grid *)

Grids(w, h) == [Cells(w, h) -> {0, 1}]

SolveInit ==
    /\ \E alg \in SolverNames, grid \in Grids(SolveW, SolveH),
          s \in Cells(SolveW, SolveH), g \in Cells(SolveW, SolveH) :
           sol = [ w |-> SolveW, h |-> SolveH, grid |-> grid,
                   it |-> SolverCall(alg, s, g),
                   last |-> <<>>, n |-> 0, goals |-> 0, ends |-> {},
                   twice |-> FALSE, status |-> "running" ]
    /\ gen = 0
    /\ reg = Imported
    /\ DriverIdle

SolvePull ==
    /\ sol.status = "running"
    /\ LET o == SolverNext(sol.it, sol.w, sol.h, sol.grid)
       IN  sol' = [sol EXCEPT !.it = o.st,
                              !.last = IF o.res = "item" THEN o.item ELSE @,
                              !.n = IF o.res = "item" THEN @ + 1 ELSE @,
                              !.ends = IF o.res = "item" /\ o.item # <<>>
                                       THEN @ \cup {o.item[Len(o.item)]}
                                       ELSE @,
                              !.twice = IF o.res = "item" /\ o.item # <<>>
                                        THEN @ \/ o.item[Len(o.item)] \in sol.ends
                                        ELSE @,
                              !.goals = IF /\ o.res = "item"
                                           /\ o.item # <<>>
                                           /\ o.item[Len(o.item)] = sol.it.goal
                                        THEN @ + 1 ELSE @,
                              !.status = IF o.res = "item" THEN "running"
                                         ELSE IF o.res = "stop" THEN "exhausted"
                                         ELSE "raised"]
    /\ UNCHANGED <<gen, reg, driver>>

SolveNext == SolvePull

SpecSolve == SolveInit /\ [][SolveNext]_vars

-----------------------------------------------------------------------------
(* Generator harness: one generator pulled edit by edit, the edits applied *)
(* in order to a fresh all-wall grid of the requested size                 *)

GenInit ==
    /\ \E alg \in GeneratorNames, width \in 1 .. GenMaxW, height \in 1 .. GenMaxH :
           gen = [ width |-> width, height |-> height,
                   it |-> GeneratorCall(alg, width, height),
                   grid |-> Zeros(width, height),
                   last |-> <<>>, n |-> 0, status |-> "running" ]
    /\ sol = 0
    /\ reg = Imported
    /\ DriverIdle

GenPull ==
    /\ gen.status = "running"
    /\ \E o \in GeneratorNext(gen.it) :
         IF o.res = "item"
         THEN IF IndexOk(gen.width, gen.height, o.item[1], o.item[2])
              THEN gen' = [gen EXCEPT
                             !.it = o.st, !.last = o.item, !.n = @ + 1,
                             !.grid = GridWrite(@, gen.width, gen.height,
                                                o.item[1], o.item[2], o.item[3])]
              ELSE gen' = [gen EXCEPT !.it = o.st, !.last = o.item, !.n = @ + 1,
                                      !.status = "raised"]
         ELSE gen' = [gen EXCEPT !.it = o.st,
                                 !.status = IF o.res = "stop" THEN "exhausted"
                                            ELSE "raised"]
    /\ UNCHANGED <<sol, reg, driver>>

GenNext == GenPull

SpecGen == GenInit /\ [][GenNext]_vars

-----------------------------------------------------------------------------
(* Recursive Division on its own, on every size up to RDMaxW x RDMaxH.     *)

RDMaxW == 7
RDMaxH == 7

RDInit ==
    /\ \E width \in 1 .. RDMaxW, height \in 1 .. RDMaxH :
           gen = [ width |-> width, height |-> height,
                   it |-> GeneratorCall("Recursive Division", width, height),
                   grid |-> Zeros(width, height),
                   last |-> <<>>, n |-> 0, status |-> "running" ]
    /\ sol = 0
    /\ reg = Imported
    /\ DriverIdle

SpecRD == RDInit /\ [][GenNext]_vars

-----------------------------------------------------------------------------
(* A maze of the DFS Backtracker, generated to its end and then solved     *)
(* from its first to its last cell by BFS and, after that, by Dijkstra.    *)

ScnMaxW == 5
ScnMaxH == 5

ScnInit ==
    /\ \E width \in 1 .. ScnMaxW, height \in 1 .. ScnMaxH :
           /\ gen = [ width |-> width, height |-> height,
                      it |-> GeneratorCall("DFS Backtracker", width, height),
                      grid |-> Zeros(width, height),
                      last |-> <<>>, n |-> 0, status |-> "running" ]
           /\ sol = [ w |-> width, h |-> height, grid |-> Zeros(width, height),
                      it |-> SolverCall("BFS", <<0, 0>>, <<width - 1, height - 1>>),
                      last |-> <<>>, n |-> 0, goals |-> 0, ends |-> {},
                      twice |-> FALSE, status |-> "idle", bfs |-> <<>> ]
    /\ reg = Imported
    /\ DriverIdle

\* solver(maze, (0, 0), (w - 1, h - 1)) on the finished maze: BFS first, then
\* Dijkstra, BFS's last snapshot being kept in bfs
ScnSolve(alg) ==
    /\ gen.status = "exhausted"
    /\ \/ alg = "BFS" /\ sol.status = "idle"
       \/ alg = "Dijkstra" /\ sol.status = "exhausted" /\ sol.it.alg = "BFS"
    /\ sol' = [ w |-> gen.width, h |-> gen.height, grid |-> gen.grid,
                it |-> SolverCall(alg, <<0, 0>>, <<gen.width - 1, gen.height - 1>>),
                last |-> <<>>, n |-> 0, goals |-> 0, ends |-> {},
                twice |-> FALSE, status |-> "running",
                bfs |-> IF alg = "BFS" THEN <<>> ELSE sol.last ]
    /\ UNCHANGED <<gen, reg, driver>>

ScnNext ==
    \/ GenPull
    \/ \E alg \in {"BFS", "Dijkstra"} : ScnSolve(alg)
    \/ SolvePull

SpecScn == ScnInit /\ [][ScnNext]_vars

-----------------------------------------------------------------------------
(* A maze of any generator, generated to its end, its endpoints picked,    *)
(* and then solved by one of the solvers between those endpoints.          *)

EndMaxW == 4
EndMaxH == 3

\* self.maze once the generation run has applied its edits
EndMaze == [w |-> gen.width, h |-> gen.height, grid |-> gen.grid]

EndInit ==
    /\ \E alg \in GeneratorNames, width \in 1 .. EndMaxW, height \in 1 .. EndMaxH :
           /\ gen = [ width |-> width, height |-> height,
                      it |-> GeneratorCall(alg, width, height),
                      grid |-> Zeros(width, height),
                      last |-> <<>>, n |-> 0, status |-> "running" ]
           /\ sol = [ w |-> width, h |-> height, grid |-> Zeros(width, height),
                      it |-> SolverCall("BFS", <<0, 0>>, <<width - 1, height - 1>>),
                      last |-> <<>>, n |-> 0, goals |-> 0, ends |-> {},
                      twice |-> FALSE, status |-> "idle" ]
    /\ reg = Imported
    /\ DriverIdle

\* solve(sol_name, ...) after the generation run ended with StopIteration:
\* _pick_endpoints, then solver(self.maze, self.start, self.goal)
EndSolve(alg) ==
    /\ gen.status = "exhausted"
    /\ sol.status = "idle"
    /\ sol' = [ w |-> gen.width, h |-> gen.height, grid |-> gen.grid,
                it |-> SolverCall(alg, pick_start(EndMaze), pick_goal(EndMaze)),
                last |-> <<>>, n |-> 0, goals |-> 0, ends |-> {},
                twice |-> FALSE, status |-> "running" ]
    /\ UNCHANGED <<gen, reg, driver>>

EndNext ==
    \/ GenPull
    \/ \E alg \in SolverNames : EndSolve(alg)
    \/ SolvePull

SpecEnd == EndInit /\ [][EndNext]_vars

-----------------------------------------------------------------------------
(* The registries on their own: classes are decorated, names are looked    *)
(* up and listed, in any order.                                            *)

\* both modules just loaded: _Registry = {} in each
RegInit ==
    /\ reg = [ generators |-> <<>>, solvers |-> <<>>, made |-> 0,
               first |-> {},
               last |-> [op |-> "load", which |-> "none", name |-> <<>>,
                         result |-> "ok", value |-> 0, names |-> <<>>] ]
    /\ sol = 0
    /\ gen = 0
    /\ DriverIdle

\* @register on a class whose instances are named name
register(which, name) ==
    /\ reg.made < MaxRegs
    /\ LET inst == reg.made + 1
           dup == duplicate(reg, which, name)
           known == \E t \in reg.first : t[1] = which /\ t[2] = name
       IN  reg' = [reg EXCEPT
                ![which] = IF dup THEN @ ELSE dict_set(@, name, inst),
                !.made = inst,
                !.first = IF dup \/ known THEN @
                          ELSE @ \cup {<<which, name, inst>>},
                !.last = [op |-> "register", which |-> which, name |-> name,
                          result |-> IF dup THEN "ValueError" ELSE "ok",
                          value |-> inst, names |-> <<>>]]
    /\ UNCHANGED <<sol, gen, driver>>

\* get_generator(name) / get_solver(name)
get_algorithm(which, name) ==
    /\ LET out == lookup(reg, which, name)
       IN  reg' = [reg EXCEPT
                !.last = [op |-> "get", which |-> which, name |-> name,
                          result |-> out.result, value |-> out.value,
                          names |-> <<>>]]
    /\ UNCHANGED <<sol, gen, driver>>

\* list_generators() / list_solvers()
list_algorithms(which) ==
    /\ reg' = [reg EXCEPT
            !.last = [op |-> "list", which |-> which, name |-> <<>>,
                      result |-> "ok", value |-> 0,
                      names |-> listing(reg, which)]]
    /\ UNCHANGED <<sol, gen, driver>>

RegNext ==
    \/ \E which \in Registries, name \in RegNames : register(which, name)
    \/ \E which \in Registries, name \in RegNames : get_algorithm(which, name)
    \/ \E which \in Registries : list_algorithms(which)

SpecReg == RegInit /\ [][RegNext]_vars

-----------------------------------------------------------------------------
(* Properties of the driver.  In a step, ev' tells the operation that ran: *)
(* for a job, ev'.epoch is the epoch its closure captured, ev'.pulled the  *)
(* number of next() calls it made and ev'.wrote its grid writes.           *)

\* C1: once a later run has been started, a continuation of an earlier run
\* that still fires (the host failed to cancel it) writes no grid cell and
\* pulls no item
C1_Cancellation ==
    [][ (ev'.op = "job" /\ ev'.epoch # hist.epoch) =>
            /\ ev'.pulled = 0
            /\ ev'.wrote = 0
            /\ maze' = maze
            /\ hist' = hist ]_vars

\* a continuation of a superseded run has fired while the run that superseded
\* it is under way
C1_Witness ==
    /\ ev.op = "job" /\ ev.result = "stale"
    /\ ev.epoch < hist.epoch
    /\ hist.epoch = run_seq
    /\ \E t \in timers : t.epoch = run_seq /\ t.id = after_id

\* C2: a job whose captured epoch differs from the current one does nothing:
\* grid, run kind, timer id, batch size, start/goal and renderer state are
\* unchanged, no item is pulled and no continuation is scheduled
C2_StaleJobNoWork ==
    [][ (ev'.op = "job" /\ ev'.epoch # run_seq) =>
            /\ UNCHANGED <<maze, start, goal, after_id, run_seq, kind,
                           batch_size, batch_cnt, canvas, hist>>
            /\ ev'.pulled = 0
            /\ ev'.wrote = 0
            /\ timers' \subseteq timers
            /\ timers' # timers ]_vars

\* the continuation of the run started last has fired stale: a request that
\* failed after _cancel had invalidated it
C2_Witness ==
    /\ ev.op = "job" /\ ev.result = "stale"
    /\ ev.epoch = hist.epoch
    /\ ev.epoch < run_seq
    /\ hist.applied # <<>>

\* C3: the epoch never decreases; a request that starts a run increments it,
\* so the run's first continuation is the only one holding the new epoch and
\* every continuation scheduled before holds a smaller one
C3_EpochMonotonic ==
    [][ /\ run_seq' >= run_seq
        /\ ev'.result = "started" =>
              /\ run_seq' = run_seq + 1
              /\ hist'.epoch = run_seq'
              /\ \A t \in timers : t.epoch < run_seq'
              /\ \E t \in timers' \ timers :
                    /\ t.epoch = run_seq'
                    /\ t.id = after_id'
                    /\ timers' \ timers = {t}
              /\ \A t \in timers : t.id = after_id => t.epoch # run_seq' ]_vars

\* a third run has been started while a continuation of an earlier run is
\* still pending
C3_Witness ==
    /\ ev.result = "started"
    /\ run_seq = 3
    /\ \E t, u \in timers : t.epoch < u.epoch /\ u.epoch = run_seq

\* C4: at most one pending continuation holds the current epoch, and the grid
\* of a maze changes only in the step of that continuation
C4_SingleActiveRun ==
    /\ [](Cardinality({ t \in timers : t.epoch = run_seq }) <= 1)
    /\ [][ (maze'.id = maze.id /\ maze'.grid # maze.grid) =>
              /\ ev'.op = "job"
              /\ ev'.epoch = run_seq
              /\ ev'.wrote > 0
              /\ \E t \in timers \ timers' :
                    t.epoch = run_seq /\ t.id = after_id ]_vars

\* the current continuation has written the grid while a stale one is pending
C4_Witness ==
    /\ ev.op = "job" /\ ev.wrote > 0 /\ ev.epoch = run_seq
    /\ \E t \in timers : t.epoch # run_seq
    /\ \E t \in timers : t.epoch = run_seq

\* can iterator st produce seq[i], seq[i+1], ... (and, if done, end there)
RECURSIVE GenProduces(_, _, _, _)
GenProduces(st, seq, i, done) ==
    IF i > Len(seq)
    THEN done => \E o \in GeneratorNext(st) : o.res = "stop"
    ELSE \E o \in GeneratorNext(st) :
            /\ o.res = "item"
            /\ o.item = seq[i]
            /\ GenProduces(o.st, seq, i + 1, done)

RECURSIVE SolProduces(_, _, _, _)
SolProduces(st, seq, i, done) ==
    LET o == SolverNext(st, maze.w, maze.h, maze.grid)
    IN  IF i > Len(seq) THEN done => o.res = "stop"
        ELSE /\ o.res = "item"
             /\ o.item = seq[i]
             /\ SolProduces(o.st, seq, i + 1, done)

\* the edits seq[i], seq[i+1], ... written in order to grid
RECURSIVE EditsApplied(_, _, _, _, _)
EditsApplied(grid, w, h, seq, i) ==
    IF i > Len(seq) THEN grid
    ELSE EditsApplied(GridWrite(grid, w, h, seq[i][1], seq[i][2], seq[i][3]),
                      w, h, seq, i + 1)

\* the run started last has ended by exhaustion
RunExhausted == hist.kind # "none" /\ hist.epoch = run_seq /\ kind = "none"

\* C5: what the driver has applied is a prefix of what the run's iterator
\* produces, in order: the grid of a generation run is the all-wall grid
\* with the first edits of a run of the generator written in order and the
\* renderer shows the same cells; the renderer's path in a solve run is the
\* last of the first snapshots of the solver; after exhaustion the applied
\* sequence is a complete run
C5_Ordering ==
    /\ Len(hist.applied) <= Len(hist.produced)
    /\ hist.applied = SubSeq(hist.produced, 1, Len(hist.applied))
    /\ RunExhausted => hist.applied = hist.produced
    /\ (hist.kind = "gen" /\ maze.id = hist.epoch) =>
          /\ GenProduces(GeneratorCall(hist.alg, maze.w, maze.h), hist.produced,
                         1, RunExhausted)
          /\ maze.grid = EditsApplied(Zeros(maze.w, maze.h), maze.w, maze.h,
                                      hist.applied, 1)
          /\ canvas.maze = maze.id
          /\ \A c \in Cells(maze.w, maze.h) :
                canvas.cells[c] = IF maze.grid[c] # 0 THEN 1 ELSE 0
    /\ (hist.kind = "solve" /\ maze.id < hist.epoch) =>
          /\ SolProduces(SolverCall(hist.alg, start, goal), hist.produced,
                         1, RunExhausted)
          /\ canvas.path = IF hist.applied = <<>> THEN <<>>
                           ELSE hist.applied[Len(hist.applied)]

\* a generation run of more than five batches of one edit has ended by
\* exhaustion
C5_Witness ==
    /\ RunExhausted
    /\ hist.kind = "gen"
    /\ batch_size = 1
    /\ Len(hist.applied) > 5
    /\ ev.op = "job" /\ ev.result = "stop"

C7_GenerateDuringSolveRejected ==
    [][ (ev'.op = "generate" /\ kind = "solve") =>
            UNCHANGED <<maze, start, goal, after_id, run_seq, kind,
                        batch_size, batch_cnt, timers, canvas, hist>> ]_vars

\* C7 amended: a generate request while the run kind is 'solve' is not
\* rejected, it supersedes the solve run: the epoch is incremented, the run
\* kind is no longer 'solve', no solve continuation holds the current epoch,
\* and if the request starts a run the maze is a new all-wall one
C7_GenerateSupersedesSolve ==
    [][ (ev'.op = "generate" /\ kind = "solve") =>
            /\ run_seq' = run_seq + 1
            /\ kind' # "solve"
            /\ \A t \in timers' : t.kind = "solve" => t.epoch < run_seq'
            /\ \A t \in timers' : t.id = after_id' => t.kind = "gen"
            /\ ev'.result = "started" =>
                  /\ kind' = "gen"
                  /\ maze'.id = run_seq'
                  /\ maze'.grid = Zeros(maze'.w, maze'.h) ]_vars

\* generate has started a run in the middle of a solve run, whose
\* continuation is still pending
C7_Witness ==
    /\ ev.op = "generate" /\ ev.result = "started"
    /\ kind = "gen"
    /\ \E t \in timers : t.kind = "solve" /\ t.epoch = run_seq - 1

\* C8: a request with an unregistered name leaves the driver state unchanged:
\* same epoch, same maze and grid, same run kind, the scheduled continuation
\* still scheduled and still valid
C8_UnknownNameNoChange ==
    [][ ev'.result = "KeyError" =>
            /\ UNCHANGED <<maze, run_seq, kind, after_id, timers>>
            /\ \A t \in timers : t.epoch = run_seq => t.epoch = run_seq' ]_vars

\* a request with an unregistered name has ended a run that was under way
C8_RunLost ==
    /\ ev.result = "KeyError"
    /\ hist.epoch = run_seq - 1
    /\ kind = "none"
    /\ hist.applied # <<>>
    /\ ~RunExhausted

-----------------------------------------------------------------------------
(* Properties of the generators *)

\* C9: pulling the edits of a generator one at a time never raises: for every
\* generator and every width and height >= 1 the run ends by exhaustion only
C9_NoErrorCrossesBoundary == gen.status # "raised"

\* Recursive Division on a 3 x 3 grid has raised
C9_RecursiveDivision3x3Raises ==
    /\ gen.status = "raised"
    /\ gen.it.alg = "Recursive Division"
    /\ gen.width = 3 /\ gen.height = 3

-----------------------------------------------------------------------------
(* Properties of the solvers *)

\* the passage cells one step from a cell of the set cs
PassageStep(w, h, grid, cs) ==
    { c \in Cells(w, h) :
        /\ grid[c] # 0
        /\ \E d \in cs : Abs(c[1] - d[1]) + Abs(c[2] - d[2]) = 1 }

\* the number of steps of a shortest 4-connected passage path from the cells
\* of frontier, which are d steps from the start, to g; -1 if there is none
RECURSIVE StepsTo(_, _, _, _, _, _, _)
StepsTo(w, h, grid, frontier, seen, g, d) ==
    IF g \in frontier THEN d
    ELSE IF frontier = {} THEN -1
    ELSE StepsTo(w, h, grid, PassageStep(w, h, grid, frontier) \ seen,
                 seen \cup PassageStep(w, h, grid, frontier), g, d + 1)

ShortestDistance(w, h, grid, s, g) ==
    IF grid[s] = 0 \/ grid[g] = 0 THEN -1
    ELSE StepsTo(w, h, grid, {s}, {s}, g, 0)

SolDistance == ShortestDistance(sol.w, sol.h, sol.grid, sol.it.start, sol.it.goal)

\* goal can be reached from s by steps between 4-adjacent cells, every cell
\* stepped on being a passage
Reachable(w, h, grid, s, g) == StepsTo(w, h, grid, {s}, {s}, g, 0) >= 0

SolReachable == Reachable(sol.w, sol.h, sol.grid, sol.it.start, sol.it.goal)

\* the last element of the snapshot yielded last is the goal
SolAtGoal == sol.last # <<>> /\ sol.last[Len(sol.last)] = sol.it.goal

\* the goal has been seen but not yet removed from the queue, stack or heap
GoalPending ==
    IF sol.it.alg \in {"BFS", "DFS"}
    THEN sol.it.goal \in SeqSet(sol.it.queue)
    ELSE /\ sol.it.goal \notin sol.it.visited
         /\ \E e \in sol.it.pq :
               e[IF sol.it.alg = "Dijkstra" THEN 2 ELSE 3] = sol.it.goal

\* C10: on every grid, for passage cells start and goal with goal reachable
\* from start, the last snapshot of an exhausted BFS, Dijkstra or A* has as
\* many edges as a shortest path, and that of DFS has at least as many
C10_ShortestPath ==
    (sol.status = "exhausted" /\ SolDistance >= 0) =>
        /\ sol.last # <<>>
        /\ sol.last[1] = sol.it.start
        /\ sol.last[Len(sol.last)] = sol.it.goal
        /\ sol.it.alg \in {"BFS", "Dijkstra", "A*"} =>
               Len(sol.last) - 1 = SolDistance
        /\ sol.it.alg = "DFS" => Len(sol.last) - 1 >= SolDistance

\* an exhausted A* whose shortest path is a detour, longer than the
\* Manhattan distance
C10_Witness ==
    /\ sol.status = "exhausted"
    /\ sol.it.alg = "A*"
    /\ SolDistance > heuristic(sol.it.goal, sol.it.start[1], sol.it.start[2])
    /\ Len(sol.last) - 1 = SolDistance

\* C11: when goal differs from start and is not reachable from it, each
\* solver yields no snapshot ending at goal, never raises, and exhausts
\* after at most one snapshot per cell
C11_UnreachableExhausts ==
    (sol.it.start # sol.it.goal /\ ~SolReachable) =>
        /\ sol.goals = 0
        /\ ~SolAtGoal
        /\ sol.status # "raised"
        /\ sol.n <= sol.w * sol.h
        /\ sol.status = "running" =>
              SolverNext(sol.it, sol.w, sol.h, sol.grid).res # "raise"

\* a solver has exhausted after several snapshots on a grid whose start and
\* goal are passages in different components
C11_Witness ==
    /\ sol.status = "exhausted"
    /\ sol.it.start # sol.it.goal
    /\ ~SolReachable
    /\ sol.grid[sol.it.start] # 0 /\ sol.grid[sol.it.goal] # 0
    /\ sol.n >= 3

\* C12: when goal is reachable, exactly one snapshot ends at goal: it is the
\* last item (the next call ends the sequence), it is yielded when goal is
\* taken from the queue, stack or heap and not while it waits there
C12_StopAtGoal ==
    /\ sol.goals <= 1
    /\ sol.goals = 1 =>
          /\ SolAtGoal
          /\ sol.it.cur = sol.it.goal
          /\ SolverNext(sol.it, sol.w, sol.h, sol.grid).res = "stop"
    /\ (sol.status = "running" /\ GoalPending) => sol.goals = 0
    /\ sol.last # <<>> => sol.it.cur = sol.last[Len(sol.last)]
    /\ (sol.status = "exhausted" /\ SolReachable) => sol.goals = 1

\* DFS has exhausted at a reachable goal, two or more steps away, after
\* yielding more snapshots than its final path has cells
C12_Witness ==
    /\ sol.status = "exhausted"
    /\ sol.it.alg = "DFS"
    /\ SolReachable
    /\ sol.goals = 1
    /\ Len(sol.last) >= 3
    /\ sol.n > Len(sol.last)

-----------------------------------------------------------------------------
(* Properties of the mazes the generators build *)

Passages(w, h, grid) == { c \in Cells(w, h) : grid[c] # 0 }

\* the passage cells connected to those of seen, frontier being the newest
RECURSIVE Flood(_, _, _, _, _)
Flood(w, h, grid, frontier, seen) ==
    IF frontier = {} THEN seen
    ELSE Flood(w, h, grid, PassageStep(w, h, grid, frontier) \ seen,
               seen \cup PassageStep(w, h, grid, frontier))

\* the passages form exactly one component under 4-connectivity
OneComponent(w, h, grid) ==
    /\ Passages(w, h, grid) # {}
    /\ \A c \in Passages(w, h, grid) :
          Flood(w, h, grid, {c}, {c}) = Passages(w, h, grid)

\* C13: for each generator and every width and height >= 1, the whole edit
\* sequence applied in order to the all-wall grid leaves passages that form
\* exactly one connected component
C13_OneComponent ==
    gen.status = "exhausted" => OneComponent(gen.width, gen.height, gen.grid)

\* Recursive Division has ended on a 2 x 2 grid with its entrance and exit
\* not connected
C13_RecursiveDivision2x2Split ==
    /\ gen.status = "exhausted"
    /\ gen.it.alg = "Recursive Division"
    /\ gen.width = 2 /\ gen.height = 2
    /\ ~OneComponent(gen.width, gen.height, gen.grid)

\* the three spanning-tree generators leave one component
C13_TreeGeneratorsConnected ==
    (gen.status = "exhausted" /\ gen.it.alg # "Recursive Division") =>
        OneComponent(gen.width, gen.height, gen.grid)

\* the sub-grid cells: both coordinates even
SubCells(w, h) == { c \in Cells(w, h) : c[1] % 2 = 0 /\ c[2] % 2 = 0 }

\* the cells between two sub-grid cells two apart
ConnectingCells(w, h) ==
    { c \in Cells(w, h) :
        \/ /\ c[1] % 2 = 1 /\ c[2] % 2 = 0
           /\ <<c[1] - 1, c[2]>> \in SubCells(w, h)
           /\ <<c[1] + 1, c[2]>> \in SubCells(w, h)
        \/ /\ c[1] % 2 = 0 /\ c[2] % 2 = 1
           /\ <<c[1], c[2] - 1>> \in SubCells(w, h)
           /\ <<c[1], c[2] + 1>> \in SubCells(w, h) }

\* the number of 4-adjacent pairs of passage cells
AdjacentPairs(w, h, grid) ==
    Cardinality({ c \in Passages(w, h, grid) :
                    <<c[1] + 1, c[2]>> \in Passages(w, h, grid) })
    + Cardinality({ c \in Passages(w, h, grid) :
                      <<c[1], c[2] + 1>> \in Passages(w, h, grid) })

\* C14: DFS Backtracker, Kruskal and Prim end with a spanning tree of the
\* sub-grid: every sub-grid cell is a passage, the other passages are N - 1
\* connecting cells (N the number of sub-grid cells), and the passage graph
\* is connected and has no cycle
C14_SpanningTree ==
    (gen.status = "exhausted" /\ gen.it.alg # "Recursive Division") =>
        LET P == Passages(gen.width, gen.height, gen.grid)
            S == SubCells(gen.width, gen.height)
        IN  /\ S \subseteq P
            /\ P \ S \subseteq ConnectingCells(gen.width, gen.height)
            /\ Cardinality(P \ S) = Cardinality(S) - 1
            /\ OneComponent(gen.width, gen.height, gen.grid)
            /\ AdjacentPairs(gen.width, gen.height, gen.grid) = Cardinality(P) - 1

\* Kruskal has ended on a 5 x 3 grid, whose sub-grid of 3 x 2 cells has
\* cycles to avoid
C14_Witness ==
    /\ gen.status = "exhausted"
    /\ gen.it.alg = "Kruskal"
    /\ gen.width = 5 /\ gen.height = 3
    /\ Cardinality(Passages(gen.width, gen.height, gen.grid)) = 11

-----------------------------------------------------------------------------
(* Further properties of the driver *)

\* C15: the grid is read-only during a solve: an accepted solve request, and
\* every step taken while the run kind is 'solve' other than a generate
\* request (which supersedes the run), leaves the maze and its grid unchanged
C15_GridReadOnlyInSolve ==
    [][ /\ ev'.op = "solve" => maze' = maze
        /\ (kind = "solve" /\ ev'.op # "generate") => maze' = maze
        /\ (kind' = "solve") => maze'.grid = maze.grid ]_vars

\* a solve run has applied several snapshots and is still under way
C15_Witness ==
    /\ kind = "solve"
    /\ hist.kind = "solve" /\ hist.epoch = run_seq
    /\ ev.op = "job" /\ ev.pulled > 0
    /\ Len(hist.applied) >= 2

-----------------------------------------------------------------------------
(* Properties of the registries, checked under SpecReg.                    *)

OtherRegistry(which) == IF which = "generators" THEN "solvers" ELSE "generators"

\* the names in a registry and the instance each is bound to
Bindings(d) == { <<d[i][1], d[i][2]>> : i \in 1 .. Len(d) }

\* the step is a call of register
RegisterStep == reg'.made = reg.made + 1 /\ reg'.last.op = "register"

\* C16: in each registry, registering an algorithm whose name is already
\* present fails with the duplicate-name error (ValueError) and leaves the
\* registry as it was: the same names, each bound to the same instance.
C16_DuplicateRejected ==
    [][ (RegisterStep /\ key_in(reg[reg'.last.which], reg'.last.name)) =>
            /\ reg'.last.result = "ValueError"
            /\ \A which \in Registries :
                    /\ Bindings(reg'[which]) = Bindings(reg[which])
                    /\ Len(reg'[which]) = Len(reg[which]) ]_vars

\* a second class with a registered name has just been refused, after an
\* instance of it was made
C16_Witness ==
    /\ reg.last.op = "register"
    /\ reg.last.result = "ValueError"
    /\ key_in(reg[reg.last.which], reg.last.name)
    /\ dict_get(reg[reg.last.which], reg.last.name) < reg.last.value

\* the names that were successfully registered in a registry
Registered(which) == { t[2] : t \in { u \in reg.first : u[1] = which } }

\* C17: after any sequence of register/get/list calls, get(name) fails with
\* the unknown-name error (KeyError) iff name was never successfully
\* registered, and otherwise returns the instance bound by the first
\* successful registration of the name; a binding is never removed or
\* replaced.
C17_GetFirstBinding ==
    /\ \A which \in Registries, name \in RegNames :
            LET out == lookup(reg, which, name)
            IN  /\ out.result = "KeyError" <=> name \notin Registered(which)
                /\ out.result # "KeyError" =>
                        /\ out.result = "ok"
                        /\ <<which, name, out.value>> \in reg.first
    /\ \A t \in reg.first : <<t[2], t[3]>> \in Bindings(reg[t[1]])
    /\ \A t, u \in reg.first : (t[1] = u[1] /\ t[2] = u[2]) => t = u
    /\ reg.last.op = "get" =>
            /\ reg.last.result = "KeyError" <=>
                    reg.last.name \notin Registered(reg.last.which)
            /\ reg.last.result # "KeyError" =>
                    <<reg.last.which, reg.last.name, reg.last.value>> \in reg.first

\* a name was looked up and found after a later class with the same name had
\* been refused: the instance returned is the older one
C17_Witness ==
    /\ reg.last.op = "get"
    /\ reg.last.result = "ok"
    /\ reg.made = MaxRegs
    /\ reg.last.value < reg.made
    /\ Len(reg[reg.last.which]) = 1
    /\ Len(reg[OtherRegistry(reg.last.which)]) = 0

\* a is before b in lexicographic order of the code points
LexLess(a, b) ==
    \/ /\ Len(a) < Len(b)
       /\ \A j \in 1 .. Len(a) : a[j] = b[j]
    \/ \E i \in 1 .. Len(a) :
            /\ i <= Len(b)
            /\ a[i] < b[i]
            /\ \A j \in 1 .. i - 1 : a[j] = b[j]

\* C18: after registrations in any order, list() returns exactly the
\* successfully registered names, each once, in ascending lexicographic
\* order, and the call does not modify the registry.
C18_ListSorted ==
    [][ reg'.last.op = "list" =>
            LET l == reg'.last.names
                which == reg'.last.which
            IN  /\ { l[i] : i \in 1 .. Len(l) } = Registered(which)
                /\ Len(l) = Cardinality(Registered(which))
                /\ \A i \in 1 .. Len(l) - 1 : LexLess(l[i], l[i + 1])
                /\ reg'.generators = reg.generators
                /\ reg'.solvers = reg.solvers
                /\ reg'.first = reg.first ]_vars

\* three names were registered in descending order, one of them a prefix of
\* another, and the listing gives them in ascending order
C18_Witness ==
    /\ reg.last.op = "list"
    /\ Len(reg.last.names) = 3
    /\ dict_keys(reg[reg.last.which]) =
            <<reg.last.names[3], reg.last.names[2], reg.last.names[1]>>
    /\ \E i \in 1 .. 2 : Len(reg.last.names[i]) < Len(reg.last.names[i + 1])

\* C19: the two registries are independent: a name is accepted by one
\* whether or not the other holds it, and a call of register, accepted or
\* refused, leaves the other registry's names and bindings as they were.
C19_RegistriesIndependent ==
    [][ RegisterStep =>
            LET which == reg'.last.which
                other == OtherRegistry(which)
            IN  /\ reg'.last.result = "ok" <=>
                        ~key_in(reg[which], reg'.last.name)
                /\ reg'.last.result = "ok" =>
                        <<reg'.last.name, reg'.last.value>> \in Bindings(reg'[which])
                /\ Bindings(reg'[other]) = Bindings(reg[other])
                /\ reg'[other] = reg[other] ]_vars

\* one name was accepted by a registry while the other registry held it,
\* and the two are bound to different instances
C19_Witness ==
    /\ reg.last.op = "register"
    /\ reg.last.result = "ok"
    /\ key_in(reg[OtherRegistry(reg.last.which)], reg.last.name)
    /\ dict_get(reg[OtherRegistry(reg.last.which)], reg.last.name) # reg.last.value
    /\ dict_get(reg[reg.last.which], reg.last.name) = reg.last.value

-----------------------------------------------------------------------------
(* Properties of the grid model, checked under SpecMaze.                   *)

-----------------------------------------------------------------------------
(* Pacing, checked under Spec.                                             *)

\* the callbacks that a step schedules
Scheduled == timers' \ timers

\* C21: at maximum speed (100), for generation and for solving, the delay
\* every callback of the run is scheduled with is the minimum tick (1 ms),
\* and the batch size is the cap of the run's kind: MAX_BATCH_GEN for a
\* generation run, MAX_BATCH_SOLVE for a solving run.
C21_MaxSpeedSaturates ==
    [][ /\ \A rows \in Dims, cols \in Dims, gen_name \in GenChoices :
            (Generate(rows, cols, gen_name, 100) /\ ev'.result = "started") =>
                /\ batch_size' = MAX_BATCH_GEN
                /\ \A t \in Scheduled : t.ms = 1 /\ Max(1, t.delay) = 1
        /\ \A sol_name \in SolChoices :
            (Solve(sol_name, 100) /\ ev'.result = "started") =>
                /\ batch_size' = MAX_BATCH_SOLVE
                /\ \A t \in Scheduled : t.ms = 1 /\ Max(1, t.delay) = 1 ]_vars

\* the same for generation runs alone
C21_MaxSpeedGenerate ==
    [][ \A rows \in Dims, cols \in Dims, gen_name \in GenChoices :
            (Generate(rows, cols, gen_name, 100) /\ ev'.result = "started") =>
                /\ batch_size' = MAX_BATCH_GEN
                /\ \A t \in Scheduled : t.ms = 1 /\ Max(1, t.delay) = 1 ]_vars

\* a solving run whose batch size is the generation cap
C21_SolveBatchIsGenCap ==
    /\ kind = "solve"
    /\ batch_size = MAX_BATCH_GEN
    /\ batch_size > MAX_BATCH_SOLVE
    /\ \E t \in timers : t.epoch = run_seq /\ t.kind = "solve" /\ t.delay = DELAY_INSTANT

-----------------------------------------------------------------------------
(* Properties of Recursive Division, checked under SpecRD.                 *)

\* the cells on the border of a w x h grid
Border(w, h) == { c \in Cells(w, h) :
                    c[1] = 0 \/ c[1] = w - 1 \/ c[2] = 0 \/ c[2] = h - 1 }

\* C22: Recursive Division on a 7x7 grid, for every random choice: once the
\* whole edit sequence is applied, every border cell is wall except exactly
\* (0,1) and (6,5), which are passage.
C22_BorderClosed7x7 ==
    (gen.width = 7 /\ gen.height = 7) =>
        /\ gen.status # "raised"
        /\ gen.status = "exhausted" =>
              \A c \in Border(7, 7) :
                  gen.grid[c] = IF c \in {<<0, 1>>, <<6, 5>>} THEN 1 ELSE 0

\* a 7x7 run has ended after dividing walls were placed inside the grid
C22_Witness ==
    /\ gen.width = 7 /\ gen.height = 7
    /\ gen.status = "exhausted"
    /\ gen.grid[<<0, 1>>] = 1 /\ gen.grid[<<6, 5>>] = 1
    /\ \E c \in Cells(7, 7) \ Border(7, 7) : gen.grid[c] = 0

-----------------------------------------------------------------------------
(* Properties of the 5x5 scenario, checked under SpecScn.                  *)

\* Dijkstra has finished on a 5x5 maze that BFS solved before
ScnDone ==
    /\ gen.width = 5 /\ gen.height = 5
    /\ sol.it.alg = "Dijkstra"
    /\ sol.status = "exhausted"

\* C23 as stated: for every maze the DFS Backtracker can produce on 5x5, BFS
\* from (0,0) to (4,4) ends with a path of 9 or fewer steps, and Dijkstra's
\* final path has the same length.
C23_BFSWithin9Steps ==
    ScnDone =>
        /\ sol.bfs # <<>>
        /\ Len(sol.bfs) - 1 <= 9
        /\ Len(sol.last) = Len(sol.bfs)

\* C23, amended: for every such maze BFS ends with a path from (0,0) to
\* (4,4) of 8 to 16 steps, as many as a shortest path has, and Dijkstra's
\* final path has the same length and ends at (4,4) too.
C23_BFSWithin16Steps ==
    /\ (gen.width = 5 /\ gen.height = 5) =>
            gen.status # "raised" /\ sol.status # "raised"
    /\ ScnDone =>
        /\ sol.bfs # <<>>
        /\ sol.bfs[1] = <<0, 0>>
        /\ sol.bfs[Len(sol.bfs)] = <<4, 4>>
        /\ 8 <= Len(sol.bfs) - 1
        /\ Len(sol.bfs) - 1 <= 16
        /\ Len(sol.bfs) - 1 = SolDistance
        /\ sol.last # <<>>
        /\ sol.last[1] = <<0, 0>>
        /\ sol.last[Len(sol.last)] = <<4, 4>>
        /\ Len(sol.last) = Len(sol.bfs)

\* a maze whose only way from (0,0) to (4,4) has 16 steps, solved by both
C23_Witness ==
    /\ ScnDone
    /\ Len(sol.bfs) - 1 = 16
    /\ Len(sol.last) - 1 = 16
    /\ Cardinality({ c \in Cells(5, 5) : gen.grid[c] = 1 }) = 17

-----------------------------------------------------------------------------
(* Edge cases of the generators, checked under SpecGen.                    *)

\* the grid is degenerate: one of its dimensions is 1 or 2
Degenerate(w, h) == w \in {1, 2} \/ h \in {1, 2}

\* C24: for each generator the dimensions it works on, after forcing to
\* odd, are never below 1 for w, h >= 1; and on every degenerate grid the
\* origin cell (0,0) is passage once all edits are applied.
C24_DegenerateOriginOpen ==
    /\ \A w \in 1 .. GenMaxW, h \in 1 .. GenMaxH :
            /\ ensure_odd(w, h)[1] >= 1 /\ ensure_odd(w, h)[2] >= 1
            /\ force_odd(w, h)[1] >= 1 /\ force_odd(w, h)[2] >= 1
    /\ gen.it.w >= 1 /\ gen.it.h >= 1
    /\ (gen.status = "exhausted" /\ Degenerate(gen.width, gen.height)) =>
            gen.grid[<<0, 0>>] = 1

\* the same without Recursive Division
C24_TreeGeneratorsOriginOpen ==
    /\ gen.it.w >= 1 /\ gen.it.h >= 1
    /\ (gen.status = "exhausted" /\ gen.it.alg # "Recursive Division") =>
            gen.grid[<<0, 0>>] = 1

\* Recursive Division has ended on a grid one cell wide and three high, and
\* the origin is wall: the entrance was opened at (0,1)
C24_RecursiveDivisionOriginWall ==
    /\ gen.status = "exhausted"
    /\ gen.it.alg = "Recursive Division"
    /\ gen.width = 1 /\ gen.height = 3
    /\ gen.grid[<<0, 0>>] = 0
    /\ gen.grid[<<0, 1>>] = 1

\* C25: Kruskal with w = h = 1 yields exactly one item, the passage edit
\* (0,0,1), builds an empty edge list, and then exhausts.
C25_Kruskal1x1 ==
    (gen.it.alg = "Kruskal" /\ gen.width = 1 /\ gen.height = 1) =>
        /\ gen.it.edges = {}
        /\ gen.status # "raised"
        /\ gen.n <= 1
        /\ gen.n = 1 => gen.last = <<0, 0, 1>>
        /\ (gen.status = "running" /\ gen.n = 0) =>
                \A o \in GeneratorNext(gen.it) :
                    o.res = "item" /\ o.item = <<0, 0, 1>>
        /\ (gen.status = "running" /\ gen.n = 1) =>
                \A o \in GeneratorNext(gen.it) : o.res = "stop"
        /\ gen.status = "exhausted" => gen.n = 1 /\ gen.grid[<<0, 0>>] = 1

\* Kruskal on 1x1 has ended after its one edit
C25_Witness ==
    /\ gen.it.alg = "Kruskal"
    /\ gen.width = 1 /\ gen.height = 1
    /\ gen.status = "exhausted"
    /\ gen.n = 1
    /\ gen.last = <<0, 0, 1>>

-----------------------------------------------------------------------------
(* Completion of runs, checked under SpecLive.                             *)

\* the run started at epoch e is the current one and has not finished
RunCurrent(e) == run_seq = e /\ hist.epoch = e /\ kind # "none"

\* the run started at epoch e has finished: _kind and _after_id are None and
\* no callback of it is left
RunFinished(e) ==
    /\ run_seq = e /\ hist.epoch = e
    /\ kind = "none"
    /\ after_id = 0
    /\ \A t \in timers : t.epoch # e

\* the iterator of the run started at epoch e raised inside a callback:
\* _kind was not reset and no callback of the run is left
RunRaised(e) ==
    /\ run_seq = e /\ hist.epoch = e
    /\ kind # "none"
    /\ \A t \in timers : t.epoch # e

\* while a callback of the current run is scheduled, _kind is the run's kind
KindKept ==
    \A t \in timers : (t.epoch = run_seq /\ hist.epoch = run_seq) => kind = t.kind

\* C26: if the timer callbacks keep being executed and no later request
\* supersedes it, every started run eventually finishes: its iterator is
\* exhausted, _kind is None and no continuation is scheduled; until then
\* _kind is the kind of the started run.
C26_RunCompletes ==
    /\ []KindKept
    /\ \A e \in 1 .. MaxLiveRuns :
            RunCurrent(e) ~> (run_seq # e \/ RunFinished(e))

\* the same, but for runs whose iterator raises
C26_RunCompletesOrRaises ==
    /\ []KindKept
    /\ \A e \in 1 .. MaxLiveRuns :
            RunCurrent(e) ~> \/ run_seq # e
                             \/ RunFinished(e)
                             \/ RunRaised(e)

\* a generation run whose iterator raised: nothing is scheduled, _kind is
\* still 'gen', and a solve request has been refused as busy
C26_RunStuck ==
    /\ kind = "gen"
    /\ hist.epoch = run_seq
    /\ hist.alg = "Recursive Division"
    /\ timers = {}
    /\ RunRaised(run_seq)
    /\ ev.op = "solve" /\ ev.result = "busy"

-----------------------------------------------------------------------------
(* Properties of the snapshots, checked under SpecSolve.                   *)

\* p is a path from s: it starts at s, each step goes to a 4-adjacent cell
\* of the grid, every cell after the first is a passage, no cell is twice
\* in it
ValidPath(p, s, w, h, grid) ==
    /\ p # <<>>
    /\ p[1] = s
    /\ \A i \in 1 .. Len(p) : p[i] \in Cells(w, h)
    /\ \A i \in 2 .. Len(p) :
            /\ Abs(p[i][1] - p[i - 1][1]) + Abs(p[i][2] - p[i - 1][2]) = 1
            /\ grid[p[i]] # 0
    /\ \A i, j \in 1 .. Len(p) : p[i] = p[j] => i = j

\* C28: every snapshot yielded by a solver is a valid root-to-node path:
\* it starts at start, consecutive elements are 4-adjacent in-range cells,
\* every element after the first is a passage, no cell occurs twice, and
\* each cell ends at most one snapshot of the run.
C28_SnapshotsValid ==
    /\ sol.n > 0 => ValidPath(sol.last, sol.it.start, sol.w, sol.h, sol.grid)
    /\ sol.n = 0 => sol.last = <<>>
    /\ ~sol.twice
    /\ Cardinality(sol.ends) = sol.n
    /\ sol.n > 0 => sol.last[Len(sol.last)] \in sol.ends

\* Dijkstra has yielded, as its seventh snapshot, a path that bends
C28_Witness ==
    /\ sol.it.alg = "Dijkstra"
    /\ sol.n = 7
    /\ Len(sol.last) >= 5
    /\ \E i \in 2 .. Len(sol.last) - 1 :
            /\ sol.last[i - 1][1] # sol.last[i + 1][1]
            /\ sol.last[i - 1][2] # sol.last[i + 1][2]

\* the number of steps of a shortest passage path from the start of the run
\* to cell c
SolStepsTo(c) == StepsTo(sol.w, sol.h, sol.grid, {sol.it.start}, {sol.it.start}, c, 0)

\* C29: BFS and Dijkstra explore in non-decreasing distance order: within a
\* run the edge counts of successive snapshots never decrease, and every
\* snapshot is a shortest path from start to its last cell.
C29_DistanceOrder ==
    [][ (sol.it.alg \in {"BFS", "Dijkstra"} /\ sol'.n = sol.n + 1) =>
            /\ Len(sol'.last) >= Len(sol.last)
            /\ Len(sol'.last) <= Len(sol.last) + 1
            /\ Len(sol'.last) - 1 = SolStepsTo(sol'.last[Len(sol'.last)]) ]_vars

\* Dijkstra has yielded a second snapshot of the same length as the one
\* before, three steps from start
C29_Witness ==
    /\ sol.it.alg = "Dijkstra"
    /\ sol.n >= 5
    /\ Len(sol.last) = 4
    /\ \E c \in sol.ends \ {sol.last[4]} : SolStepsTo(c) = 3

-----------------------------------------------------------------------------
(* The dividing walls of Recursive Division, checked under SpecRD.         *)

\* the cells of the wall line of split sp that lie in the rectangle split
LineCells(sp) ==
    IF sp[1] = HORIZONTAL
    THEN { <<xx, sp[2]>> : xx \in sp[4] .. sp[4] + sp[6] - 1 }
    ELSE { <<sp[2], yy>> : yy \in sp[5] .. sp[5] + sp[7] - 1 }

\* the gap of split sp, and the cells next to it on either side of the line
GapCell(sp) == IF sp[1] = HORIZONTAL THEN <<sp[3], sp[2]>> ELSE <<sp[2], sp[3]>>
GapSides(sp) ==
    IF sp[1] = HORIZONTAL
    THEN { <<sp[3], sp[2] - 1>>, <<sp[3], sp[2] + 1>> }
    ELSE { <<sp[2] - 1, sp[3]>>, <<sp[2] + 1, sp[3]>> }

\* in grid, the line of sp has one passage, its gap, open on both sides
OneGap(sp, grid) ==
    /\ Cardinality({ c \in LineCells(sp) : grid[c] = 1 }) = 1
    /\ grid[GapCell(sp)] = 1
    /\ \A c \in GapSides(sp) : c \in DOMAIN grid /\ grid[c] = 1

\* C30: Recursive Division leaves exactly one gap per dividing wall: for
\* every (w, h), even dimensions included, and every random choice, each
\* wall line placed by a split has in the final grid exactly one passage
\* among its cells in the rectangle split, with passages on both sides.
C30_OneGapPerWall ==
    gen.status = "exhausted" =>
        \A sp \in gen.it.splits : OneGap(sp, gen.grid)

\* the same for odd widths and heights only
C30_OneGapPerWallOdd ==
    (gen.status = "exhausted" /\ gen.width % 2 = 1 /\ gen.height % 2 = 1) =>
        \A sp \in gen.it.splits : OneGap(sp, gen.grid)

\* Recursive Division has ended on 4x4 with a dividing wall whose gap fell
\* on the border column: no cell of the line inside the border is open
C30_GapOnBorder ==
    /\ gen.status = "exhausted"
    /\ gen.width = 4 /\ gen.height = 4
    /\ \E sp \in gen.it.splits :
            /\ GapCell(sp)[1] = gen.width - 1 \/ GapCell(sp)[2] = gen.height - 1
            /\ \A c \in LineCells(sp) \ Border(gen.width, gen.height) : gen.grid[c] = 0
            /\ ~OneGap(sp, gen.grid)

-----------------------------------------------------------------------------
(* The union-find of Kruskal against the grid, checked under SpecGen.      *)

\* the root of c's set
KruskalRoot(parent, c) == find(parent, c)[1]

\* in the generation g, two sub-grid cells have the same root exactly when
\* a 4-connected path of passages joins them
KruskalConsistent(g) ==
    \A a \in KruskalCells(g.width, g.height), b \in KruskalCells(g.width, g.height) :
        (KruskalRoot(g.it.parent, a) = KruskalRoot(g.it.parent, b))
            <=> Reachable(g.width, g.height, g.grid, a, b)

\* the edges skipped so far, in a Kruskal generation that has emitted its
\* sub-grid cells: those taken from the list less those carved
KruskalSkipped ==
    Cardinality(KruskalEdges(gen.width, gen.height)) - Cardinality(gen.it.edges)
    - (gen.n - Cardinality(KruskalCells(gen.width, gen.height)) + 1) \div 2

\* C31: Kruskal, once the sub-grid cells are emitted: after every next(),
\* two sub-grid cells have the same union-find root iff passages emitted so
\* far connect them; an edge taken from the list is carved (its wall cell
\* emitted as passage, the neighbour cell emitted next) iff its endpoints had
\* different roots, and an edge whose endpoints had the same root is passed
\* over with no edit emitted and its wall cell left as it was
C31_KruskalUnionFind ==
    [][ ( /\ gen.it.alg = "Kruskal"
          /\ gen.n >= Cardinality(KruskalCells(gen.width, gen.height)) ) =>
        LET taken == gen.it.edges \ gen'.it.edges
            carved == { e \in taken : /\ gen'.n = gen.n + 1
                                      /\ gen'.last = <<e[3][1], e[3][2], 1>> }
        IN  /\ KruskalConsistent(gen')
            /\ \A e \in taken :
                 e \in carved <=> KruskalRoot(gen.it.parent, e[1])
                                    # KruskalRoot(gen.it.parent, e[2])
            /\ \A e \in carved :
                 /\ gen'.grid[e[3]] = 1
                 /\ gen'.it.q = << <<e[2][1], e[2][2], 1>> >>
            /\ \A e \in taken \ carved : gen'.grid[e[3]] = gen.grid[e[3]]
            /\ IF gen.it.q # <<>>
               THEN taken = {} /\ gen'.n = gen.n + 1 /\ gen'.last = Head(gen.it.q)
               ELSE gen'.n = gen.n + Cardinality(carved) ]_vars

\* Kruskal on 5 x 3 has passed over an edge that would have closed a cycle,
\* has carved another one since, and has edges still to come
C31_Witness ==
    /\ gen.it.alg = "Kruskal"
    /\ gen.width = 5 /\ gen.height = 3
    /\ gen.status = "running"
    /\ gen.it.q = <<>>
    /\ gen.it.edges # {}
    /\ gen.n > Cardinality(KruskalCells(gen.width, gen.height))
    /\ KruskalSkipped > 0
    /\ KruskalConsistent(gen)

-----------------------------------------------------------------------------
(* The endpoints of a finished maze and the solve after it, checked under  *)
(* SpecEnd.                                                                *)

\* the endpoints are passages of the final grid when it has one, and goal
\* can be reached from start
EndpointsJoined ==
    /\ Passages(gen.width, gen.height, gen.grid) # {} =>
          /\ gen.grid[pick_start(EndMaze)] # 0
          /\ gen.grid[pick_goal(EndMaze)] # 0
    /\ Reachable(gen.width, gen.height, gen.grid,
                 pick_start(EndMaze), pick_goal(EndMaze))

\* the solve has ended, and its last snapshot ends at goal
SolvedToGoal ==
    /\ sol.status = "exhausted"
    /\ sol.last # <<>>
    /\ sol.last[Len(sol.last)] = sol.it.goal

\* C32: after a generation run that ended by exhaustion, for every
\* generator and every w, h >= 1, the start and goal that _pick_endpoints
\* chooses are passages of the final grid (when it has one) and goal is
\* reachable from start, and a following solve with any of the four solvers
\* ends with a snapshot whose last cell is goal.
C32_EndpointsSolvable ==
    /\ gen.status = "exhausted" => EndpointsJoined
    /\ sol.status \in {"exhausted", "raised"} => SolvedToGoal

\* the same for DFS Backtracker, Kruskal and Prim only
C32_TreeGeneratorsSolvable ==
    gen.it.alg # "Recursive Division" =>
        /\ gen.status = "exhausted" => EndpointsJoined
        /\ sol.status \in {"exhausted", "raised"} => SolvedToGoal

\* for Recursive Division the endpoints are passages all the same
C32_EndpointsArePassages ==
    (gen.status = "exhausted" /\ Passages(gen.width, gen.height, gen.grid) # {}) =>
        /\ gen.grid[pick_start(EndMaze)] # 0
        /\ gen.grid[pick_goal(EndMaze)] # 0

\* Recursive Division has ended on 2 x 2 with the two passages (0, 0) and
\* (1, 1), which do not touch; the solve from (0, 0) to (1, 1) has ended
\* after the one snapshot that holds start only
C32_GoalNotReached ==
    /\ gen.status = "exhausted"
    /\ gen.it.alg = "Recursive Division"
    /\ gen.width = 2 /\ gen.height = 2
    /\ sol.it.start = <<0, 0>> /\ sol.it.goal = <<1, 1>>
    /\ gen.grid[<<0, 0>>] = 1 /\ gen.grid[<<1, 1>>] = 1
    /\ ~Reachable(2, 2, gen.grid, <<0, 0>>, <<1, 1>>)
    /\ sol.status = "exhausted"
    /\ sol.n = 1
    /\ sol.last = << <<0, 0>> >>

====
